---- MODULE Spec2Model ----
(***************************************************************************)
(* A model of the PVM bytecode interpreter (src/pvm.c, src/pvm.h): the     *)
(* executable image as the packed bytes the code reads, pvm_exe_check,     *)
(* pvm_reset and pvm_op, the single step.                                  *)
(*                                                                         *)
(* Widths.  TLC's integers are 32 bits wide, so an int32_t is held as      *)
(* itself and a uint32_t (timer, timeout, the clock) as the int32_t with   *)
(* the same bits; Add32, Sub32, Mul32 wrap as the machine does and ULt     *)
(* compares two such values as unsigned.  uint8_t and uint16_t fields are  *)
(* naturals reduced with % 256 and % 65536.                                *)
(*                                                                         *)
(* Undefined behaviour.  A read outside an array (the image, the data      *)
(* stack) yields a value the environment chooses (the oracle u of a step)  *)
(* and sets oob; a write outside an array, a division by zero and          *)
(* INT32_MIN / -1 set ub, after which nothing more is modelled.            *)
(***************************************************************************)
EXTENDS Integers, Sequences, FiniteSets, TLC

\* ------------------------------------------------------------ constants

PVM_VERSION == 1
PVM_DATA_STACK_SIZE == 30
PVM_CALL_STACK_SIZE == 10
PVM_INTEGRAL_OP_MASK == 15

PVM_EXE_OK == "PVM_EXE_OK"
PVM_EXE_SIZE == "PVM_EXE_SIZE"
PVM_EXE_VERSION == "PVM_EXE_VERSION"

PVM_NO_ERROR == "PVM_NO_ERROR"
PVM_MAIN_RETURN == "PVM_MAIN_RETURN"
PVM_CALL_STACK_OVERFLOW == "PVM_CALL_STACK_OVERFLOW"
PVM_DATA_STACK_UNDERFLOW == "PVM_DATA_STACK_UNDERFLOW"
PVM_DATA_STACK_OVERFLOW == "PVM_DATA_STACK_OVERFLOW"
PVM_ARG_OUT_OF_STACK == "PVM_ARG_OUT_OF_STACK"
PVM_VAR_OUT_OF_STACK == "PVM_VAR_OUT_OF_STACK"
PVM_RETURN_OUT_OF_STACK == "PVM_RETURN_OUT_OF_STACK"
PVM_DATA_STACK_SMASHED == "PVM_DATA_STACK_SMASHED"
PVM_PC_OVERRUN == "PVM_PC_OVERRUN"
PVM_EXE_NO_FUNCTION == "PVM_EXE_NO_FUNCTION"
PVM_BUILTIN_NO_FUNCTION == "PVM_BUILTIN_NO_FUNCTION"
PVM_NO_VARIABLE == "PVM_NO_VARIABLE"
PVM_NO_CONSTANT == "PVM_NO_CONSTANT"
PVM_VARIADIC_SIZE == "PVM_VARIADIC_SIZE"

\* No pvm_op call has been made since the last pvm_reset.
NoCall == "none"

\* ------------------------------------------------- 32-bit arithmetic

MinInt32 == -2147483647 - 1
MaxInt32 == 2147483647

Lo16(a) == a % 65536
Hi16(a) == (a - Lo16(a)) \div 65536

\* The int32_t whose halves are hi and lo, both reduced modulo 2^16.
Norm32(hi, lo) ==
    LET l == lo % 65536
        c == (lo - l) \div 65536
        h == ((hi + c + 32768) % 65536) - 32768
    IN  (h * 65536) + l

Add32(a, b) == Norm32(Hi16(a) + Hi16(b), Lo16(a) + Lo16(b))
Sub32(a, b) == Norm32(Hi16(a) - Hi16(b), Lo16(a) - Lo16(b))
Neg32(a) == Sub32(0, a)
Inv32(a) == -1 - a

Mul32(a, b) ==
    LET al == Lo16(a)
        bl == Lo16(b)
        a0 == al % 256
        a1 == al \div 256
        t  == a1 * bl
        x  == ((Hi16(a) * bl) % 65536) + ((al * Hi16(b)) % 65536)
    IN  Norm32(x + (t \div 256), (a0 * bl) + ((t % 256) * 256))

\* value <<= 5 that loses the bit shifted into the sign.
Shl5Unsigned(a) == (a % 67108864) * 32

\* value <<= 5
Shl5(a) ==
    ((a % 67108864) * 32) + (IF (a \div 67108864) % 2 = 1 THEN MinInt32 ELSE 0)

\* C's a / b, truncated toward zero; b # 0 and not (a = INT32_MIN, b = -1).
QuotPos(a, b) ==
    IF a >= 0 THEN a \div b
    ELSE (a \div b) + (IF a % b # 0 THEN 1 ELSE 0)

Div32(a, b) ==
    IF b > 0 THEN QuotPos(a, b)
    ELSE IF b = MinInt32 THEN (IF a = MinInt32 THEN 1 ELSE 0)
    ELSE -QuotPos(a, -b)

DivUndefined(a, b) == b = 0 \/ (a = MinInt32 /\ b = -1)

RECURSIVE Bits16(_, _, _, _)
\* Bitwise op on two 16-bit naturals: k = 0 and, 1 or, 2 xor.
Bits16(k, x, y, n) ==
    IF n = 0 THEN 0
    ELSE LET bx == x % 2
             by == y % 2
             r  == CASE k = 0 -> bx * by
                    [] k = 1 -> IF bx + by > 0 THEN 1 ELSE 0
                    [] OTHER -> (bx + by) % 2
         IN  r + (2 * Bits16(k, x \div 2, y \div 2, n - 1))

Bits32(k, a, b) ==
    Norm32(Bits16(k, Hi16(a) % 65536, Hi16(b) % 65536, 16),
           Bits16(k, Lo16(a), Lo16(b), 16))

And32(a, b) == Bits32(0, a, b)
Or32(a, b)  == Bits32(1, a, b)
Xor32(a, b) == Bits32(2, a, b)

RECURSIVE PwrLoopOneMore(_, _, _)
\* PwrLoop with the test after the decrement: while (second--) value *= v;
PwrLoopOneMore(value, v, second) ==
    IF second = 0 THEN value
    ELSE PwrLoopOneMore(Mul32(value, v), v, second - 1)

RECURSIVE PwrLoop(_, _, _)
\* while (--second) value *= v;
PwrLoop(value, v, second) ==
    IF second - 1 = 0 THEN value
    ELSE PwrLoop(Mul32(value, v), v, second - 1)

\* a < b for two uint32_t held as int32_t bit patterns.
ULt(a, b) ==
    IF (a >= 0) = (b >= 0) THEN a < b ELSE a >= 0

U8(n) == n % 256
U16(n) == n % 65536

\* ------------------------------------------------------------ the image
\* pvm_exe_t, packed: vm_version at byte 0, size at 1..2 (little-endian),
\* functions_count at 3, constants_count at 4, main_variables_count at 5,
\* then functions[] (5 bytes each), the constants (4 bytes each), the code.
\* An image e is the sequence of its bytes; offsets count from 0.

ExeHeaderSize == 6
FunctionSize == 5
ConstSize == 4

\* The byte at offset off; outside the image, what the environment holds.
ExeByte(e, off, u) == IF off < Len(e) THEN e[off + 1] ELSE u % 256

vm_version(e) == e[1]
exe_size(e) == e[2] + (256 * e[3])
functions_count(e) == e[4]
constants_count(e) == e[5]
main_variables_count(e) == e[6]

FunctionOffset(i) == ExeHeaderSize + (FunctionSize * i)

\* functions[i], unpacked.
pvm_function(e, i, u) ==
    LET o == FunctionOffset(i)
        f == ExeByte(e, o + 4, u)
    IN  [address         |-> ExeByte(e, o, u) + (256 * ExeByte(e, o + 1, u)),
         arguments_count |-> ExeByte(e, o + 2, u),
         variables_count |-> ExeByte(e, o + 3, u),
         returns_count   |-> f % 64,
         is_variadic     |-> (f \div 64) % 2,
         is_built_in     |-> (f \div 128) % 2]

FunctionOutside(e, i) == FunctionOffset(i) + FunctionSize > Len(e)

ConstantsOffset(e) == FunctionOffset(functions_count(e))

\* pvm_constants(exe)[k], a little-endian int32_t.
pvm_constant(e, k, u) ==
    LET o  == ConstantsOffset(e) + (ConstSize * k)
        b3 == ExeByte(e, o + 3, u)
    IN  ExeByte(e, o, u) + (256 * ExeByte(e, o + 1, u))
          + (65536 * ExeByte(e, o + 2, u))
          + (16777216 * (IF b3 >= 128 THEN b3 - 256 ELSE b3))

ConstantOutside(e, k) == ConstantsOffset(e) + (ConstSize * (k + 1)) > Len(e)

CodeOffset(e) == ConstantsOffset(e) + (ConstSize * constants_count(e))

\* exe->size minus the bytes of the two tables: pvm_code_size before its
\* conversion to size_t.
CodeSizeDiff(e) == exe_size(e) - (CodeOffset(e) - ExeHeaderSize)

\* PcOverrun with the comparison off by one: pc == code size passes.
PcOverrunOffByOne(e, p) == CodeSizeDiff(e) >= 0 /\ p > CodeSizeDiff(e)

\* vm->pc >= pvm_code_size(exe).  pvm_code_size returns a size_t: a negative
\* difference wraps to more than any 16-bit pc.
PcOverrun(e, p) == CodeSizeDiff(e) >= 0 /\ p >= CodeSizeDiff(e)

\* pvm_code(exe)[p]
pvm_code(e, p, u) == ExeByte(e, CodeOffset(e) + p, u)

CodeOutside(e, p) == CodeOffset(e) + p >= Len(e)

\* pvm_exe_check taking the length less the size field alone, as the header
\* layout with size first had it.
pvm_exe_check_LessSizeField(e, size) ==
    IF size < 2 \/ exe_size(e) # size - 2 THEN PVM_EXE_SIZE
    ELSE IF vm_version(e) # PVM_VERSION THEN PVM_EXE_VERSION
    ELSE PVM_EXE_OK

\* pvm_exe_check with the two tests in the other order.
pvm_exe_check_VersionFirst(e, size) ==
    IF vm_version(e) # PVM_VERSION THEN PVM_EXE_VERSION
    ELSE IF size < ExeHeaderSize \/ exe_size(e) # size - ExeHeaderSize
         THEN PVM_EXE_SIZE
    ELSE PVM_EXE_OK

\* enum pvm_exe_check_result pvm_exe_check(exe, size): size - 6 is computed in
\* size_t, so a size below 6 wraps to more than any 16-bit exe->size.
pvm_exe_check(e, size) ==
    IF size < ExeHeaderSize \/ exe_size(e) # size - ExeHeaderSize THEN PVM_EXE_SIZE
    ELSE IF vm_version(e) # PVM_VERSION THEN PVM_EXE_VERSION
    ELSE PVM_EXE_OK

\* ------------------------------------------------------------ the state

VARIABLES
    exe,          \* persist.exe: the bytes of the bound image
    binding,      \* persist.binding
    timer, timeout, data_stack, call_stack, pc, data_top, call_top,
    now,          \* the latest value now_ms() returned
    chk,          \* what pvm_exe_check returned for exe ("unchecked" before)
    ret,          \* what the latest pvm_op returned (NoCall after a reset)
    op,           \* the opcode the latest pvm_op fetched, -1 if it fetched none
    oob,          \* the latest pvm_op read outside an array
    ub,           \* a pvm_op had no defined outcome
    steps,        \* pvm_op calls since the last reset
    invoked,      \* the built-in calls the latest pvm_op made, in order
    reset_from    \* what the latest host call, if a pvm_reset, was applied to

vars == <<exe, binding, timer, timeout, data_stack, call_stack, pc, data_top,
          call_top, now, chk, ret, op, oob, ub, steps, invoked, reset_from>>

ZeroFrame ==
    [return_address |-> 0, variables_start |-> 0, arguments_count |-> 0,
     function_index |-> 0]

ZeroDataStack == [i \in 0..(PVM_DATA_STACK_SIZE - 1) |-> 0]
ZeroCallStack == [i \in 0..(PVM_CALL_STACK_SIZE - 1) |-> ZeroFrame]

\* The pvm_t a step works on, with what the step has observed so far:
\* oob (a read outside an array), ub (no defined outcome), nd (the oracle was
\* consulted), clk (the opcode called now_ms()), inv (the built-ins called:
\* entry of pvm_builtins[], offset of arguments[] in the data stack, count).
Machine ==
    [timer |-> timer, timeout |-> timeout, data_stack |-> data_stack,
     call_stack |-> call_stack, pc |-> pc, data_top |-> data_top,
     call_top |-> call_top, oob |-> FALSE, ub |-> FALSE, nd |-> FALSE,
     clk |-> FALSE, inv |-> <<>>]

\* The pvm_t as the host holds it, persist included.
Vm ==
    [timer |-> timer, timeout |-> timeout, data_stack |-> data_stack,
     call_stack |-> call_stack, pc |-> pc, data_top |-> data_top,
     call_top |-> call_top, binding |-> binding, exe |-> exe]

\* The zero-initialised static pvm_t of the host, bound to image e.
StaticVm(b, e) ==
    [timer |-> 0, timeout |-> 0, data_stack |-> ZeroDataStack,
     call_stack |-> ZeroCallStack, pc |-> 0, data_top |-> 0, call_top |-> 0,
     binding |-> b, exe |-> e]

\* pvm_reset with a zeroing loop that stops short of the call stack.
pvm_reset_ShortLoop(vm) ==
    [vm EXCEPT !.timer = 0, !.timeout = 0, !.data_stack = ZeroDataStack,
               !.data_top = main_variables_count(vm.exe)]

\* void pvm_reset(pvm_t *vm): every byte before persist is zeroed
pvm_reset(vm) ==
    [vm EXCEPT !.timer = 0, !.timeout = 0, !.data_stack = ZeroDataStack,
               !.call_stack = ZeroCallStack, !.pc = 0, !.call_top = 0,
               !.data_top = main_variables_count(vm.exe)]

\* ------------------------------------------------------ stack and frames

Done(m, errno) == [m |-> m, ret |-> errno]

pvm_validate_function_index(index) ==
    IF index < 0 \/ index >= functions_count(exe) THEN PVM_EXE_NO_FUNCTION
    ELSE PVM_NO_ERROR

pvm_current_function(m) ==
    IF m.call_top # 0 /\ m.call_top <= PVM_CALL_STACK_SIZE
    THEN m.call_stack[m.call_top - 1].function_index
    ELSE -1

pvm_current_variables_start(m) ==
    IF m.call_top # 0 THEN m.call_stack[m.call_top - 1].variables_start
    ELSE 0

pvm_data_stack_push(m, data) ==
    IF m.data_top >= PVM_DATA_STACK_SIZE
    THEN [m |-> m, err |-> PVM_DATA_STACK_OVERFLOW]
    ELSE [m |-> [m EXCEPT !.data_stack[m.data_top] = data,
                          !.data_top = m.data_top + 1],
          err |-> PVM_NO_ERROR]

\* data_stack[i] as a read: outside the array, what the environment holds.
ReadSlot(m, i, u) == IF i < PVM_DATA_STACK_SIZE THEN m.data_stack[i] ELSE u
SlotOutside(i) == i >= PVM_DATA_STACK_SIZE
Observe(m, outside) ==
    [m EXCEPT !.oob = @ \/ outside, !.nd = @ \/ outside]

pvm_data_stack_pop(m, u) ==
    IF m.data_top = 0
    THEN [m |-> m, err |-> PVM_DATA_STACK_UNDERFLOW, v |-> 0]
    ELSE LET t == m.data_top - 1
         IN  [m   |-> Observe([m EXCEPT !.data_top = t], SlotOutside(t)),
              err |-> PVM_NO_ERROR,
              v   |-> ReadSlot(m, t, u)]

\* push_value that pushes the successor of the value.
PushValueAndOne(m, value) ==
    LET r == pvm_data_stack_push(m, Add32(value, 1)) IN Done(r.m, r.err)

\* push_value: ... return 0
PushValue(m, value) ==
    LET r == pvm_data_stack_push(m, value) IN Done(r.m, r.err)

\* ------------------------------------------------------------ the opcodes
\* Each takes the machine after the fetch (pc already incremented).

\* PSH: value = op & 0x7F
OpPSH(o, m) == PushValue(m, o % 128)

\* PSC: value <<= 5; value |= op & 0x1F (the low five bits are zero after
\* the shift, so the or is an addition)
OpPSC(o, m, u) ==
    LET p == pvm_data_stack_pop(m, u)
    IN  IF p.err # PVM_NO_ERROR THEN Done(p.m, p.err)
        ELSE PushValue(p.m, Shl5(p.v) + (o % 32))

\* NEG, INV, INC, DEC
UnaryValue(o, value) ==
    CASE o % 4 = 3 -> Sub32(value, 1)
      [] o % 4 = 2 -> Add32(value, 1)
      [] o % 4 = 1 -> Inv32(value)
      [] OTHER     -> Neg32(value)

OpUnary(o, m, u) ==
    LET p == pvm_data_stack_pop(m, u)
    IN  IF p.err # PVM_NO_ERROR THEN Done(p.m, p.err)
        ELSE PushValue(p.m, UnaryValue(o, p.v))

\* POP that looks before it pops: too few values, and none is taken.
PopLoopAllOrNothing(m, i, u) ==
    IF m.data_top < i THEN Done(m, PVM_DATA_STACK_UNDERFLOW)
    ELSE Done([m EXCEPT !.data_top = m.data_top - i], PVM_NO_ERROR)

RECURSIVE PopLoop(_, _, _)
\* for (int i = (op & 3) + 1; i; i--) pop
PopLoop(m, i, u) ==
    IF i = 0 THEN Done(m, PVM_NO_ERROR)
    ELSE LET p == pvm_data_stack_pop(m, u)
         IN  IF p.err # PVM_NO_ERROR THEN Done(p.m, p.err)
             ELSE PopLoop(p.m, i - 1, u)

OpPOP(o, m, u) == PopLoop(m, (o % 4) + 1, u)

\* Jump without the bias of a negative parameter.
JumpUnbiased(m, param) ==
    Done([m EXCEPT !.pc = U16(m.pc + U16(Add32(param, 1)))], PVM_NO_ERROR)

\* jump: if (param < 0) param -= 2; vm->pc += param + 1;
Jump(m, param) ==
    LET q == IF param < 0 THEN Sub32(param, 2) ELSE param
    IN  Done([m EXCEPT !.pc = U16(m.pc + U16(Add32(q, 1)))], PVM_NO_ERROR)

\* JMB: param = -value; goto jump
OpJMB(m, u) ==
    LET p == pvm_data_stack_pop(m, u)
    IN  IF p.err # PVM_NO_ERROR THEN Done(p.m, p.err)
        ELSE Jump(p.m, Neg32(p.v))

\* LDC that refuses an index without having popped it.
OpLDCKeepsIndex(m, u) ==
    LET p == pvm_data_stack_pop(m, u)
    IN  IF p.err # PVM_NO_ERROR THEN Done(p.m, p.err)
        ELSE IF p.v < 0 \/ p.v >= constants_count(exe)
             THEN Done(m, PVM_NO_CONSTANT)
        ELSE PushValue(Observe(p.m, ConstantOutside(exe, p.v)),
                       pvm_constant(exe, p.v, u))

\* LDC: pop, if (value < 0 || value >= constants_count) return
\* PVM_NO_CONSTANT, push the constant
OpLDC(m, u) ==
    LET p == pvm_data_stack_pop(m, u)
    IN  IF p.err # PVM_NO_ERROR THEN Done(p.m, p.err)
        ELSE IF p.v < 0 \/ p.v >= constants_count(exe)
             THEN Done(p.m, PVM_NO_CONSTANT)
        ELSE PushValue(Observe(p.m, ConstantOutside(exe, p.v)),
                       pvm_constant(exe, p.v, u))

\* SLP with a range check: a negative value is no sleep.
OpSLPClamped(m, t, u) ==
    LET p == pvm_data_stack_pop(m, u)
    IN  IF p.err # PVM_NO_ERROR THEN Done(p.m, p.err)
        ELSE Done([p.m EXCEPT !.timer = t, !.clk = TRUE,
                              !.timeout = IF p.v < 0 THEN 0 ELSE p.v],
                  PVM_NO_ERROR)

\* SLP: vm->timer = now_ms(); vm->timeout = value;  t is what now_ms() returns.
OpSLP(m, t, u) ==
    LET p == pvm_data_stack_pop(m, u)
    IN  IF p.err # PVM_NO_ERROR THEN Done(p.m, p.err)
        ELSE Done([p.m EXCEPT !.timer = t, !.timeout = p.v, !.clk = TRUE],
                  PVM_NO_ERROR)

\* BinaryValue with the operands the other way round: second OP= value.
BinaryValueSwapped(o, value, second) ==
    CASE o % 8 = 7 -> Xor32(second, value)
      [] o % 8 = 6 -> Or32(second, value)
      [] o % 8 = 5 -> And32(second, value)
      [] o % 8 = 4 -> IF value <= 0 THEN 1 ELSE PwrLoop(second, second, value)
      [] o % 8 = 3 -> Div32(second, value)
      [] o % 8 = 2 -> Mul32(second, value)
      [] o % 8 = 1 -> Sub32(second, value)
      [] OTHER     -> Add32(second, value)

\* ADD .. XOR: value OP= second, value popped first
BinaryValue(o, value, second) ==
    CASE o % 8 = 7 -> Xor32(value, second)
      [] o % 8 = 6 -> Or32(value, second)
      [] o % 8 = 5 -> And32(value, second)
      [] o % 8 = 4 -> IF second <= 0 THEN 1 ELSE PwrLoop(value, value, second)
      [] o % 8 = 3 -> Div32(value, second)
      [] o % 8 = 2 -> Mul32(value, second)
      [] o % 8 = 1 -> Sub32(value, second)
      [] OTHER     -> Add32(value, second)

\* BranchTaken with BGE and BLE strict.
BranchTakenStrict(o, second) ==
    CASE o % 8 = 7 -> second < 0
      [] o % 8 = 6 -> second > 0
      [] o % 8 = 5 -> second < 0
      [] o % 8 = 4 -> second > 0
      [] o % 8 = 3 -> second # 0
      [] o % 8 = 1 -> second # 0
      [] OTHER     -> second = 0

\* BZE .. BLE on the value compared with zero
BranchTaken(o, second) ==
    CASE o % 8 = 7 -> second <= 0
      [] o % 8 = 6 -> second >= 0
      [] o % 8 = 5 -> second < 0
      [] o % 8 = 4 -> second > 0
      [] o % 8 = 3 -> second # 0
      [] o % 8 = 1 -> second # 0
      [] OTHER     -> second = 0

\* Branch that adds the displacement alone: vm->pc += value.
BranchPlain(o, m, value, second) ==
    IF BranchTaken(o, second)
    THEN Done([m EXCEPT !.pc = U16(m.pc + U16(value))], PVM_NO_ERROR)
    ELSE Done(m, PVM_NO_ERROR)

\* if (branch & 1) vm->pc += value + 1;
Branch(o, m, value, second) ==
    IF BranchTaken(o, second)
    THEN Done([m EXCEPT !.pc = U16(m.pc + U16(Add32(value, 1)))], PVM_NO_ERROR)
    ELSE Done(m, PVM_NO_ERROR)

\* 1010ssss: two pops, then arithmetic or a branch
OpBinary(o, m, u) ==
    LET p1 == pvm_data_stack_pop(m, u)
        p2 == pvm_data_stack_pop(p1.m, u)
        p3 == pvm_data_stack_pop(p2.m, u)
    IN  IF p1.err # PVM_NO_ERROR THEN Done(p1.m, p1.err)
        ELSE IF p2.err # PVM_NO_ERROR THEN Done(p2.m, p2.err)
        ELSE IF (o \div 8) % 2 = 1
             THEN IF o % 8 = 3 /\ DivUndefined(p1.v, p2.v)
                  THEN Done([p2.m EXCEPT !.ub = TRUE], PVM_NO_ERROR)
                  ELSE PushValue(p2.m, BinaryValue(o, p1.v, p2.v))
        ELSE IF o % 8 > 1
             THEN IF p3.err # PVM_NO_ERROR THEN Done(p3.m, p3.err)
                  ELSE Branch(o, p3.m, p1.v, Sub32(p2.v, p3.v))
        ELSE Branch(o, p2.m, p1.v, p2.v)

\* if (param > 0) param += PVM_INTEGRAL_OP_MASK: a popped parameter completed
Expand(v) == IF v > 0 THEN Add32(v, PVM_INTEGRAL_OP_MASK) ELSE v

\* The integral parameter of CAL, JMP, LDV and STV: op & 0x0F, or popped
Param(o, m, u) ==
    IF o % 16 # PVM_INTEGRAL_OP_MASK
    THEN [m |-> m, err |-> PVM_NO_ERROR, v |-> o % 16]
    ELSE LET p == pvm_data_stack_pop(m, u)
         IN  IF p.err # PVM_NO_ERROR THEN p
             ELSE [p EXCEPT !.v = Expand(p.v)]

\* stack_size taken one too large: the index just past the locals passes.
LocalsSizeAndOne(m, u) ==
    LET function == pvm_current_function(m)
        f == pvm_function(exe, function, u)
    IN  IF function < 0 THEN main_variables_count(exe) + 1
        ELSE U8(f.arguments_count + f.variables_count + 1)

\* stack_size, a uint_fast8_t (8 bits wide in the sample's build)
LocalsSize(m, u) ==
    LET function == pvm_current_function(m)
        f == pvm_function(exe, function, u)
    IN  IF function < 0 THEN main_variables_count(exe)
        ELSE U8(f.arguments_count + f.variables_count)

\* LDV, STV
OpVar(o, m, param, u) ==
    LET function == pvm_current_function(m)
        m1 == IF function < 0 THEN m
              ELSE Observe(m, FunctionOutside(exe, function))
        index == param + pvm_current_variables_start(m)
        p == pvm_data_stack_pop(m1, u)
    IN  IF function >= 0
           /\ pvm_validate_function_index(function) # PVM_NO_ERROR
        THEN Done(m, PVM_EXE_NO_FUNCTION)
        ELSE IF param < 0 \/ param >= LocalsSize(m, u)
             THEN Done(m1, PVM_NO_VARIABLE)
        ELSE IF index >= PVM_DATA_STACK_SIZE
             THEN Done(m1, PVM_VAR_OUT_OF_STACK)
        ELSE IF (o \div 16) % 2 = 1
             THEN IF p.err # PVM_NO_ERROR THEN Done(p.m, p.err)
                  ELSE Done([p.m EXCEPT !.data_stack[index] = p.v],
                            PVM_NO_ERROR)
        ELSE PushValue(m1, m1.data_stack[index])

\* MainReturn that unwinds the data stack first.
MainReturnUnwinds(m) == Done([m EXCEPT !.data_top = 0], PVM_MAIN_RETURN)

\* if (pvm_validate_function_index(vm, function)) return PVM_MAIN_RETURN;
MainReturn(m) == Done(m, PVM_MAIN_RETURN)

\* Smashed with the test one-sided: a top above the window's end passes.
SmashedIfBelow(stack_start, call, fun, returns_start) ==
    stack_start + call.arguments_count + fun.variables_count > returns_start

\* stack_start + call->arguments_count + fun->variables_count != returns_start
Smashed(stack_start, call, fun, returns_start) ==
    stack_start + call.arguments_count + fun.variables_count # returns_start

\* MoveReturns that copies from the top downwards: the values change order.
MoveReturnsReversed(m, stack_start, returns_start, returns_size, u) ==
    [j \in 0..(PVM_DATA_STACK_SIZE - 1) |->
        IF j >= stack_start /\ j < stack_start + returns_size
        THEN ReadSlot(m, (returns_start + returns_size - 1)
                           - (j - stack_start), u)
        ELSE m.data_stack[j]]

\* while (returns_size--) data_stack[stack_start++] = data_stack[returns_start++]
\* The source is at or above the destination, so no value is read after it
\* was overwritten.
MoveReturns(m, stack_start, returns_start, returns_size, u) ==
    [j \in 0..(PVM_DATA_STACK_SIZE - 1) |->
        IF j >= stack_start /\ j < stack_start + returns_size
        THEN ReadSlot(m, returns_start + (j - stack_start), u)
        ELSE m.data_stack[j]]

\* RET
OpRET(m, u) ==
    LET function == pvm_current_function(m)
        stack_start == pvm_current_variables_start(m)
        fun == pvm_function(exe, function, u)
        returns_size == fun.returns_count
        returns_start == U8(m.data_top - returns_size)
        call == m.call_stack[m.call_top - 1]
        m1 == Observe([m EXCEPT !.call_top = m.call_top - 1],
                      FunctionOutside(exe, function))
        reads == {returns_start + i : i \in 0..(returns_size - 1)}
        writes == {stack_start + i : i \in 0..(returns_size - 1)}
        copied == MoveReturns(m, stack_start, returns_start, returns_size, u)
    IN  IF pvm_validate_function_index(function) # PVM_NO_ERROR
        THEN MainReturn(m)
        ELSE IF Smashed(stack_start, call, fun, returns_start)
             THEN Done(m1, PVM_DATA_STACK_SMASHED)
        ELSE Done([Observe(m1, \E i \in reads : SlotOutside(i))
                     EXCEPT !.data_stack = copied,
                            !.data_top = U8(stack_start + returns_size),
                            !.pc = call.return_address,
                            !.ub = @ \/ (\E i \in writes : SlotOutside(i))],
                  PVM_NO_ERROR)

\* ------------------------------------------------------------ built-ins
\* pvm_builtins[] of the host: what each entry stores into arguments[0..],
\* t being what now_ms() returns and u what the host's calendar holds.

pvm_builtins_size == 10

BuiltinWrites(address, t, u) ==
    CASE address = 2 -> <<t>>
      [] address = 3 -> <<u>>
      [] address = 4 -> <<u, u, u>>
      [] address = 5 -> <<u, u, u>>
      [] address = 6 -> <<u>>
      [] address = 7 -> <<0>>
      [] address = 8 -> <<0>>
      [] address = 9 -> <<2>>
      [] OTHER       -> <<>>

\* The slots of arguments[] an entry reads.
BuiltinReads(address, args_size) ==
    CASE address = 0 -> args_size
      [] address = 1 -> 1
      [] OTHER       -> 0

\* pvm_builtins[address].func(vm, vm->data_stack + start, args_size)
CallBuiltin(m, address, start, args_size, t, u) ==
    LET w == BuiltinWrites(address, t, u)
        r == BuiltinReads(address, args_size)
    IN  [m EXCEPT
           !.data_stack = [j \in 0..(PVM_DATA_STACK_SIZE - 1) |->
                             IF j >= start /\ j < start + Len(w)
                             THEN w[(j - start) + 1] ELSE m.data_stack[j]],
           !.ub  = @ \/ (Len(w) > 0 /\ SlotOutside(start + (Len(w) - 1))),
           !.oob = @ \/ (r > 0 /\ SlotOutside(start + (r - 1))),
           !.nd  = @ \/ address \in 3..6,
           !.clk = @ \/ address = 2,
           !.inv = Append(@, [address |-> address, base |-> start,
                              count |-> args_size])]

RECURSIVE ZeroFill(_, _)
\* for (i = 0; i < fun->variables_count; ++i) push 0
ZeroFill(m, n) ==
    IF n = 0 THEN [m |-> m, err |-> PVM_NO_ERROR]
    ELSE LET r == pvm_data_stack_push(m, 0)
         IN  IF r.err # PVM_NO_ERROR THEN r ELSE ZeroFill(r.m, n - 1)

\* CAL
\* ArgsMissing with the comparison off by one: exactly enough is refused.
ArgsMissingOffByOne(m, args_size) == m.data_top <= args_size

\* The stack holds fewer values than the call takes as arguments.
ArgsMissing(m, args_size) == m.data_top < args_size

\* BuiltinTop with the returns stacked above the arguments.
BuiltinTopAboveArgs(call_stack_start, args_size, fun) ==
    U8(call_stack_start + args_size + fun.returns_count)

\* vm->data_top = call_stack_start + fun->returns_count
BuiltinTop(call_stack_start, args_size, fun) ==
    U8(call_stack_start + fun.returns_count)

\* ReturnAddress that names the CAL itself.
ReturnAddressOfCall(m) == U16(m.pc - 1)

\* call->return_address = vm->pc: the fetch has moved pc past the opcode.
ReturnAddress(m) == m.pc

\* ArgsSize that leaves the popped count out.
ArgsSizeDeclared(fun, variadic_size) == fun.arguments_count

\* size_t args_size = fun->arguments_count; args_size += variadic_size for a
\* variadic function.
ArgsSize(fun, variadic_size) ==
    IF fun.is_variadic = 1 THEN fun.arguments_count + variadic_size
    ELSE fun.arguments_count

\* CallStackFull with the comparison off by one: a full stack passes.
CallStackFullOffByOne(m) == m.call_top > PVM_CALL_STACK_SIZE

\* The call stack has no room for one more frame.
CallStackFull(m) == m.call_top >= PVM_CALL_STACK_SIZE

OpCAL(m, param, t, u) ==
    LET fun == pvm_function(exe, param, u)
        m1  == Observe(m, FunctionOutside(exe, param))
        pv  == pvm_data_stack_pop(m1, u)
        variadic == fun.is_variadic = 1
        m2  == IF variadic THEN pv.m ELSE m1
        args_size == ArgsSize(fun, pv.v)
        stack_rest == U8(PVM_DATA_STACK_SIZE - m2.data_top)
        call_stack_start == U8(m2.data_top - args_size)
        m3  == [m2 EXCEPT
                  !.call_stack[m2.call_top] =
                     [@ EXCEPT !.function_index = param,
                               !.variables_start = call_stack_start,
                               !.arguments_count = U8(args_size)],
                  !.call_top = m2.call_top + 1]
        z   == ZeroFill(m3, fun.variables_count)
        mb  == CallBuiltin(m2, fun.address, call_stack_start, U8(args_size),
                           t, u)
    IN  IF pvm_validate_function_index(param) # PVM_NO_ERROR
        THEN Done(m, PVM_EXE_NO_FUNCTION)
        ELSE IF CallStackFull(m) THEN Done(m, PVM_CALL_STACK_OVERFLOW)
        ELSE IF variadic /\ pv.err # PVM_NO_ERROR THEN Done(pv.m, pv.err)
        ELSE IF variadic /\ (pv.v < 0 \/ pv.v > 255 - fun.arguments_count)
             THEN Done(m2, PVM_VARIADIC_SIZE)
        ELSE IF ArgsMissing(m2, args_size)
             THEN Done(m2, PVM_ARG_OUT_OF_STACK)
        ELSE IF stack_rest < fun.variables_count
             THEN Done(m2, PVM_VAR_OUT_OF_STACK)
        ELSE IF stack_rest < fun.returns_count
             THEN Done(m2, PVM_RETURN_OUT_OF_STACK)
        ELSE IF fun.is_built_in = 1
             THEN IF fun.address >= pvm_builtins_size
                  THEN Done(m2, PVM_BUILTIN_NO_FUNCTION)
                  ELSE Done([mb EXCEPT !.data_top =
                                  BuiltinTop(call_stack_start, U8(args_size),
                                             fun)],
                            PVM_NO_ERROR)
        ELSE IF z.err # PVM_NO_ERROR THEN Done(z.m, z.err)
        ELSE Done([z.m EXCEPT
                     !.call_stack[m2.call_top].return_address =
                         ReturnAddress(m),
                     !.pc = fun.address],
                  PVM_NO_ERROR)

\* ------------------------------------------------------------ pvm_op

\* SKZ .. SNN that take a value off the stack, as a skip would.
OpReservedPops(m, u) ==
    LET p == pvm_data_stack_pop(m, u) IN Done(p.m, p.err)

\* SKZ, SNZ, SKN, SNN: the branch is empty
OpReserved(m, u) == Done(m, PVM_NO_ERROR)

\* The dispatch on the opcode o, m being the machine after the fetch.
Dispatch(o, m, t, u) ==
    LET q == Param(o, m, u)
    IN  IF o < 128 THEN OpPSH(o, m)
        ELSE IF o >= 192
             THEN IF q.err # PVM_NO_ERROR THEN Done(q.m, q.err)
                  ELSE IF o >= 224 THEN OpVar(o, q.m, q.v, u)
                  ELSE IF o >= 208 THEN OpCAL(q.m, q.v, t, u)
                  ELSE Jump(q.m, q.v)
        ELSE IF o < 160 THEN OpPSC(o, m, u)
        ELSE IF o < 176 THEN OpBinary(o, m, u)
        ELSE IF o >= 188 THEN OpPOP(o, m, u)
        ELSE IF o >= 184 THEN OpUnary(o, m, u)
        ELSE IF o = 183 THEN OpJMB(m, u)
        ELSE IF o = 182 THEN OpLDC(m, u)
        ELSE IF o = 181 THEN OpRET(m, u)
        ELSE IF o = 180 THEN OpSLP(m, t, u)
        ELSE OpReserved(m, u)

\* Sleeping with the two timestamps compared directly: now < timer + timeout.
SleepingUntil(m, t) ==
    m.timer # 0 /\ ULt(t, Add32(m.timer, m.timeout))

\* Sleeping with a halt: once a RET of main has returned, steps do nothing.
SleepingOrHalted(m, t) ==
    \/ ret = PVM_MAIN_RETURN
    \/ m.timer # 0 /\ ULt(Sub32(t, m.timer), m.timeout)

\* The sleep is still running: d < vm->timeout, d = now_ms() - vm->timer
Sleeping(m, t) == m.timer # 0 /\ ULt(Sub32(t, m.timer), m.timeout)

\* SleepStep with the timer cleared on the way out.
SleepStepClearsTimer(m) ==
    [m |-> [m EXCEPT !.timer = 0], ret |-> PVM_NO_ERROR, op |-> -1]

\* if (d < vm->timeout) return PVM_NO_ERROR: nothing is touched.
SleepStep(m) == [m |-> m, ret |-> PVM_NO_ERROR, op |-> -1]

\* WakeUp that ends the wait and keeps the sleep: timeout 0, timer as set.
WakeUpKeepsSleep(m) == [m EXCEPT !.timeout = 0]

\* WakeUp that leaves the timer as it was.
WakeUpKeepsTimer(m) == m

\* vm->timer = 0: the sleep is over, or there was none.
WakeUp(m) == [m EXCEPT !.timer = 0]

\* pvm_errno_t pvm_op(pvm_t *vm): t1 is what now_ms() returns to the sleep
\* check, t2 what it returns to the opcode, u the oracle.  The result is the
\* machine, the errno and the opcode fetched (-1 if none was).
pvm_op(m, t1, t2, u) ==
    LET m1 == WakeUp(m)
        o  == pvm_code(exe, m.pc, u)
        m2 == Observe([m1 EXCEPT !.pc = U16(m.pc + 1)], CodeOutside(exe, m.pc))
        r  == Dispatch(o, m2, t2, u)
    IN  IF Sleeping(m, t1) THEN SleepStep(m)
        ELSE IF PcOverrun(exe, m.pc)
             THEN [m |-> m1, ret |-> PVM_PC_OVERRUN, op |-> -1]
        ELSE [m |-> r.m, ret |-> r.ret, op |-> o]

\* ------------------------------------------------------------ the images

\* A pvm_function_t, packed: address (little-endian), arguments_count,
\* variables_count, then returns_count:6, is_variadic:1, is_built_in:1.
FunctionBytes(address, arguments, variables, returns, variadic, builtin) ==
    <<address % 256, address \div 256, arguments, variables,
      returns + (64 * variadic) + (128 * builtin)>>

\* A pvm_const_t, little-endian two's complement.
ConstBytes(c) ==
    <<c % 256, (c \div 256) % 256, (c \div 65536) % 256,
      (c \div 16777216) % 256>>

RECURSIVE Flatten(_)
Flatten(ss) == IF ss = <<>> THEN <<>> ELSE Head(ss) \o Flatten(Tail(ss))

\* The file a compiler writes: the declared size counts the tables and the
\* code, as pvm_code_size and pvm_exe_check take it.
ExeBytes(version, size, fns, consts, mvc, code) ==
    <<version, size % 256, size \div 256, Len(fns), Len(consts), mvc>>
      \o Flatten(fns)
      \o Flatten([i \in 1..Len(consts) |-> ConstBytes(consts[i])])
      \o code

Image(fns, consts, mvc, code) ==
    ExeBytes(PVM_VERSION,
             (FunctionSize * Len(fns)) + (ConstSize * Len(consts)) + Len(code),
             fns, consts, mvc, code)

\* Bounds of the model.
MaxCode == 2        \* longest generated code section
MaxMainVars == 1    \* largest main_variables_count of a generated image
MaxSteps == 12      \* pvm_op calls between two resets
MaxDelta == 2       \* most milliseconds between two readings of the clock
MaxElapsed == 4     \* milliseconds the clock runs in all

\* The opcodes generated code is made of: PSH 0, PSH 1, PSH 2, PSC 1, BZE,
\* ADD, SKZ, SLP, RET, LDC, JMB, NEG, POP 1, JMP 0, JMP (popped), CAL 0,
\* LDV 0, STV 0.
Alphabet ==
    {0, 1, 2, 129, 160, 168, 176, 180, 181, 182, 183, 184, 188, 192, 207,
     208, 224, 240}

Codes(n) == UNION {[1..k -> Alphabet] : k \in 1..n}

\* Every code of up to MaxCode opcodes, with one bytecode function at offset
\* 1 (no arguments, one local, no return value) and one constant.
GenImages ==
    {Image(<<FunctionBytes(1, 0, 1, 0, 0, 0)>>, <<-5>>, mvc, code) :
        mvc \in 0..MaxMainVars, code \in Codes(MaxCode)}

\* CAL 0 at offset 0 of a function that starts at offset 0: recursion.
ImgDeep == Image(<<FunctionBytes(0, 0, 0, 0, 0, 0)>>, <<>>, 0, <<208>>)

\* A function with 29 locals fills the data stack; PSH follows.
ImgFill ==
    Image(<<FunctionBytes(1, 0, 29, 0, 0, 0)>>, <<>>, 0, <<208, 1, 1, 1>>)

\* More main variables than the data stack has slots: SKZ; POP 1; PSH 0.
ImgBigMain == Image(<<>>, <<>>, PVM_DATA_STACK_SIZE + 1, <<176, 188, 0>>)

\* A header that announces one function and holds none: size 0 is what
\* pvm_exe_check asks of a file of six bytes.
ImgShort == <<PVM_VERSION, 0, 0, 1, 0, 0>>

\* The scenarios of the specification: push and add; constant load; branch
\* taken; variable round trip; call and return.
ImgAdd == Image(<<>>, <<>>, 0, <<5, 7, 168>>)
ImgLdc == Image(<<>>, <<4660>>, 0, <<0, 182>>)
ImgBze == Image(<<>>, <<>>, 0, <<0, 0, 160, 0>>)
ImgVar == Image(<<>>, <<>>, 1, <<42, 240, 224>>)
ImgCall ==
    Image(<<FunctionBytes(5, 1, 0, 1, 0, 0)>>, <<>>, 0,
          <<3, 208, 0, 0, 0, 224, 186, 181>>)

Scenarios == {ImgAdd, ImgLdc, ImgBze, ImgVar, ImgCall}

\* PSH 2; SLP; PSH 1: a sleep of two milliseconds with an opcode after it.
ImgSleep == Image(<<>>, <<>>, 0, <<2, 180, 1>>)

\* PSH 0; PSH 2; NEG; BZE: a taken branch with the displacement -2.
ImgBranchBack == Image(<<>>, <<>>, 0, <<0, 2, 184, 160>>)

\* PSH 2; NEG; JMP (popped): a loop of the two bytes before the jump.
ImgLoop == Image(<<>>, <<>>, 0, <<2, 184, 207>>)

\* The operands of the arithmetic images, and their codes: PSH 9; PSH a;
\* (NEG;) PSH b; (NEG;) then one of ADD .. XOR.  b, on top, may be 127 too.
ArithOperands == {0, 1, 2, 7}
ArithTops == ArithOperands \cup {127}

ArithCode(a, na, b, nb, o) ==
    <<9, a>> \o (IF na THEN <<184>> ELSE <<>>)
             \o <<b>> \o (IF nb THEN <<184>> ELSE <<>>) \o <<o>>

ArithImages ==
    {Image(<<>>, <<>>, 0, ArithCode(a, na, b, nb, o)) :
        a \in ArithOperands, na \in BOOLEAN, b \in ArithTops,
        nb \in BOOLEAN, o \in 168..175}

\* PSH y; PSH x; PSH disp; then one of BZE .. BLE; two more bytes.
BranchOperands == {0, 1, 2}

BranchImages ==
    {Image(<<>>, <<>>, 0, <<y, x, d, o, 0, 0>>) :
        y \in BranchOperands, x \in BranchOperands, d \in {0, 1},
        o \in 160..167}

\* x = INT32_MIN from the constants, y = 1: x - y wraps.  PSH 1; PSH 0; LDC;
\* PSH 0; BGT.
ImgBranchWrap ==
    Image(<<>>, <<MinInt32>>, 0, <<1, 0, 182, 0, 164, 0, 0>>)

\* A function of two arguments called with one value on the stack, and with
\* two: PSH 5; CAL 0 and PSH 5; PSH 6; CAL 0; then RET in the function.
ImgArgsShort == Image(<<FunctionBytes(2, 2, 0, 0, 0, 0)>>, <<>>, 0, <<5, 208, 181>>)
ImgArgsExact ==
    Image(<<FunctionBytes(3, 2, 0, 0, 0, 0)>>, <<>>, 0, <<5, 6, 208, 181>>)

\* PSH v, or PSH -v; NEG for a negative v: the count of variadic arguments.
PushCount(v) == IF v < 0 THEN <<-v, 184>> ELSE <<v>>

\* A variadic bytecode function of one declared argument and one local,
\* called with two values and the count v on the stack; its body is LDV p
\* or STV p, then RET.  PSH 7; PSH 8; PSH v; CAL 0; body.
VariadicCounts == {-1, 0, 1, 2}
VariadicCode(v, o) == <<7, 8>> \o PushCount(v) \o <<208>>
VariadicImages ==
    {Image(<<FunctionBytes(Len(VariadicCode(v, o)), 1, 1, 0, 1, 0)>>, <<>>, 0,
           VariadicCode(v, o) \o <<o, 181>>) :
        v \in VariadicCounts, o \in (224..227) \cup {242}}

\* A variadic function of 255 declared arguments: PSH v; CAL 0.
VariadicFullImages ==
    {Image(<<FunctionBytes(2, 255, 0, 0, 1, 0)>>, <<>>, 0, <<v, 208>>) :
        v \in {0, 1}}

\* A built-in at entry a of pvm_builtins[] (or past its end), of n declared
\* arguments and r returns, variadic or not, called with three values on the
\* stack (and the count 1): PSH 9; PSH 4; PSH 5; (PSH 1;) CAL 0; PSH 1.
BuiltinEntries == {0, 2, 9, 10}
BuiltinCode(vd) ==
    <<9, 4, 5>> \o (IF vd = 1 THEN <<1>> ELSE <<>>) \o <<208, 1>>
BuiltinImages ==
    {Image(<<FunctionBytes(a, n, 0, r, vd, 1)>>, <<>>, 0, BuiltinCode(vd)) :
        a \in BuiltinEntries, n \in {0, 2}, r \in {0, 1}, vd \in {0, 1}}

\* Ten bytecode functions, each calling the next, and the tenth calling a
\* built-in: CAL 0 in main, CAL i + 1 in function i at offset i + 1.
ChainFunctions ==
    [i \in 1..(PVM_CALL_STACK_SIZE + 1) |->
        IF i <= PVM_CALL_STACK_SIZE THEN FunctionBytes(i, 0, 0, 0, 0, 0)
        ELSE FunctionBytes(9, 0, 0, 1, 0, 1)]
ImgDeepBuiltin ==
    Image(ChainFunctions, <<>>, 0,
          [i \in 1..(PVM_CALL_STACK_SIZE + 1) |-> 207 + i])

\* A function of n arguments, v locals and r returns whose body pushes k
\* values and returns: PSH 9; PSH 1 (n times); CAL 0; PSH 0; then, in the
\* function, PSH 5; PSH 6 (k of them); RET.
TripCode(n) == <<9>> \o [i \in 1..n |-> 1] \o <<208, 0>>
TripBody(k) == SubSeq(<<5, 6>>, 1, k) \o <<181>>
TripImage(n, v, r, k) ==
    Image(<<FunctionBytes(Len(TripCode(n)), n, v, r, 0, 0)>>, <<>>, 0,
          TripCode(n) \o TripBody(k))
TripImages ==
    {TripImage(n, v, r, k) :
        n \in {0, 2}, v \in {0, 1}, r \in 0..2, k \in 0..2}

\* More main variables than the data stack has slots, and a call of a
\* function with one local: CAL 0; RET.
ImgBigMainCall ==
    Image(<<FunctionBytes(1, 0, 1, 0, 0, 0)>>, <<>>, PVM_DATA_STACK_SIZE + 1,
          <<208, 181>>)

\* Two main variables; PSH 7, then LDV or STV of index 0, 1 or 2.
VarImmediateImages ==
    {Image(<<>>, <<>>, 2, <<7, o>>) : o \in (224..226) \cup (240..242)}

\* Two main variables and an index taken from the stack: -1 (PSH 1; NEG),
\* 0 and 16 (PSH 1, biased by 15), for LDV and for STV of the value 7.
VarStackImages ==
    {Image(<<>>, <<>>, 2, code) :
        code \in {<<1, 184, 239>>, <<0, 239>>, <<1, 239>>,
                  <<7, 1, 184, 255>>, <<7, 0, 255>>, <<7, 1, 255>>}}

\* 31 main variables: POP 2; PSH 15; LDV with the index 30 from the stack.
ImgVarOut ==
    Image(<<>>, <<>>, PVM_DATA_STACK_SIZE + 1, <<189, 15, 239>>)

\* LDV i; STV i on a known stack.  "main": two main variables, the second
\* set to 5, and a 9 above them.  "call": in a function of one argument (6)
\* and one local, called above the 9 of main.  "full": in a function whose
\* 29 locals leave one free slot.
VarPair(where, i) ==
    CASE where = "main" ->
           Image(<<>>, <<>>, 2, <<5, 241, 9, 224 + i, 240 + i>>)
      [] where = "call" ->
           Image(<<FunctionBytes(3, 1, 1, 0, 0, 0)>>, <<>>, 0,
                 <<9, 6, 208, 224 + i, 240 + i, 181>>)
      [] OTHER ->
           Image(<<FunctionBytes(1, 0, PVM_DATA_STACK_SIZE - 1, 0, 0, 0)>>,
                 <<>>, 0, <<208, 224 + i, 240 + i>>)

VarPairImages ==
    {VarPair(where, i) : where \in {"main", "call", "full"}, i \in 0..1}

\* Two constants, 4660 and -5, and LDC of the index 0, 1, 2 and -1.
LdcImages ==
    {Image(<<>>, <<4660, -5>>, 0, code) :
        code \in {<<0, 182>>, <<1, 182>>, <<2, 182>>, <<1, 184, 182>>}}

RECURSIVE PscChain(_)
\* The code that builds x: PSH of the leading bits, then one PSC for each
\* group of five bits below them; x is taken as its 32-bit pattern.
PscChain(x) ==
    IF x >= 0 /\ x < 128 THEN <<x>>
    ELSE LET rest == IF x >= 0 THEN x \div 32
                     ELSE ((x - MinInt32) \div 32) + 67108864
         IN  PscChain(rest) \o <<128 + (x % 32)>>

PscValues == {-1, -5, MinInt32, MaxInt32, 4660, 128, 127}

PscImages == {Image(<<>>, <<>>, 0, PscChain(x)) : x \in PscValues}

\* SKZ, SNZ, SKN or SNN on an empty stack, above a value, and after a sleep
\* of no millisecond (PSH 0; SLP).
ReservedImages ==
    {Image(<<>>, <<>>, 0, code \o <<o>>) :
        code \in {<<>>, <<7>>, <<0, 180>>}, o \in 176..179}

\* PSH 7, then an opcode that wants more than one value: ADD .. XOR,
\* BZE .. BLE, POP 2 .. POP 4.
ShortStackImages ==
    {Image(<<>>, <<>>, 0, <<7, o>>) : o \in (160..175) \cup (189..191)}

\* -1 (PSH 1; NEG), then INT32_MIN above it, then DIV: INT32_MIN / -1.
ImgDivMin ==
    Image(<<>>, <<>>, 0, <<1, 184>> \o PscChain(MinInt32) \o <<171>>)

\* PSH 1; NEG; SLP; PSH 7: a sleep of -1 millisecond.
ImgSleepNeg == Image(<<>>, <<>>, 0, <<1, 184, 180, 7>>)

Images ==
    GenImages \cup Scenarios \cup {ImgDeep, ImgFill, ImgBigMain, ImgShort}
      \cup {ImgSleep, ImgLoop, ImgBranchWrap, ImgArgsShort, ImgArgsExact}
      \cup {ImgBranchBack}
      \cup ArithImages \cup BranchImages
      \cup VariadicImages \cup VariadicFullImages \cup BuiltinImages
      \cup TripImages \cup {ImgDeepBuiltin, ImgBigMainCall}
      \cup VarImmediateImages \cup VarStackImages \cup {ImgVarOut}
      \cup VarPairImages \cup LdcImages \cup PscImages
      \cup ReservedImages \cup ShortStackImages \cup {ImgDivMin}
      \cup {ImgSleepNeg}

Bindings == {7}

ClockStart == Sub32(0, 2)

\* What a read outside the image or the stack may find: the oracle.  A read
\* inside them has one outcome, computed with the first value.
Oracle == {0, 181}

\* ------------------------------------------------------------ the host

\* The latest host call was no pvm_reset.
NoReset == [valid |-> FALSE, call_top |-> 0, sleeping |-> FALSE, ret |-> NoCall]

\* main(): the image is read and checked, bound to the static pvm_t, and
\* the machine reset; an image the check refuses is never run.
Init ==
    /\ exe \in {e \in Images : pvm_exe_check(e, Len(e)) = PVM_EXE_OK}
    /\ binding \in Bindings
    /\ chk = PVM_EXE_OK
    /\ LET vm == pvm_reset(StaticVm(binding, exe))
       IN  /\ timer = vm.timer
           /\ timeout = vm.timeout
           /\ data_stack = vm.data_stack
           /\ call_stack = vm.call_stack
           /\ pc = vm.pc
           /\ data_top = vm.data_top
           /\ call_top = vm.call_top
    /\ now = ClockStart
    /\ ret = NoCall
    /\ op = -1
    /\ oob = FALSE
    /\ ub = FALSE
    /\ steps = 0
    /\ invoked = <<>>
    /\ reset_from = NoReset

\* What now_ms() may add to its previous value, when it is called at all.
Deltas(called, t) ==
    IF called
    THEN {d \in 0..MaxDelta : Sub32(t, ClockStart) + d <= MaxElapsed}
    ELSE {0}

\* The outcomes of one pvm_op call on machine m with the clock at t: one per
\* pair of clock readings and oracle value the call can observe.
Outcomes(m, t) ==
    UNION {
      LET t1 == Add32(t, d1)
      IN  UNION {
            {[r |-> pvm_op(m, t1, Add32(t1, d2), u), t1 |-> t1,
              t2 |-> Add32(t1, d2)] :
                d2 \in Deltas(r0.m.clk, t1),
                u \in (IF r0.m.nd THEN Oracle ELSE {0})} :
            r0 \in {pvm_op(m, t1, t1, 0)}} :
      d1 \in Deltas(m.timer # 0, t)}

\* The host calls pvm_op.  The sample host calls it until it returns an
\* error; the library lets a host call it in any state, as here.
Step ==
    /\ ~ub
    /\ steps < MaxSteps
    /\ \E x \in Outcomes(Machine, now) :
         /\ timer' = x.r.m.timer
         /\ timeout' = x.r.m.timeout
         /\ data_stack' = x.r.m.data_stack
         /\ call_stack' = x.r.m.call_stack
         /\ pc' = x.r.m.pc
         /\ data_top' = x.r.m.data_top
         /\ call_top' = x.r.m.call_top
         /\ now' = IF x.r.m.clk THEN x.t2
                   ELSE IF timer # 0 THEN x.t1 ELSE now
         /\ ret' = x.r.ret
         /\ op' = x.r.op
         /\ oob' = x.r.m.oob
         /\ ub' = x.r.m.ub
         /\ steps' = steps + 1
         /\ invoked' = x.r.m.inv
    /\ reset_from' = NoReset
    /\ UNCHANGED <<exe, binding, chk>>

\* The host calls pvm_reset: in any state, not only first and after an error
\* as the sample host does.
Reset ==
    /\ ~ub
    /\ LET vm == pvm_reset(Vm)
       IN  /\ timer' = vm.timer
           /\ timeout' = vm.timeout
           /\ data_stack' = vm.data_stack
           /\ call_stack' = vm.call_stack
           /\ pc' = vm.pc
           /\ data_top' = vm.data_top
           /\ call_top' = vm.call_top
           /\ binding' = vm.binding
           /\ exe' = vm.exe
    /\ ret' = NoCall
    /\ op' = -1
    /\ oob' = FALSE
    /\ steps' = 0
    /\ invoked' = <<>>
    /\ reset_from' = [valid |-> TRUE, call_top |-> call_top,
                      sleeping |-> timer # 0, ret |-> ret]
    /\ UNCHANGED <<now, chk, ub>>

Next == Step \/ Reset

Spec == Init /\ [][Next]_vars

\* ------------------------------------------------- the host that goes on

MaxLiveSleep == 3   \* longest sleep, in milliseconds, of a LiveImages code

\* Sleeps of ms milliseconds: with an opcode after the SLP, with none, with
\* a second SLP right after the first, and in a loop (PSH 4; NEG; JMP goes
\* back to offset 0).
LiveImages ==
    UNION {{Image(<<>>, <<>>, 0, <<ms, 180, 7>>),
            Image(<<>>, <<>>, 0, <<ms, 180>>),
            Image(<<>>, <<>>, 0, <<ms, 1, 180, 180, 7>>),
            Image(<<>>, <<>>, 0, <<ms, 180, 4, 184, 207>>)} :
           ms \in 0..MaxLiveSleep}

\* What now_ms() may read when SLP calls it with no sleep pending: the
\* milliseconds around the wrap of the 32-bit clock.
LiveStamps == {Sub32(0, 2), Sub32(0, 1), 0, 1}

\* main() as in Init, with an image of LiveImages.
InitLive ==
    /\ exe \in {e \in LiveImages : pvm_exe_check(e, Len(e)) = PVM_EXE_OK}
    /\ binding \in Bindings
    /\ chk = PVM_EXE_OK
    /\ LET vm == pvm_reset(StaticVm(binding, exe))
       IN  /\ timer = vm.timer
           /\ timeout = vm.timeout
           /\ data_stack = vm.data_stack
           /\ call_stack = vm.call_stack
           /\ pc = vm.pc
           /\ data_top = vm.data_top
           /\ call_top = vm.call_top
    /\ now = ClockStart
    /\ ret = NoCall
    /\ op = -1
    /\ oob = FALSE
    /\ ub = FALSE
    /\ steps = 0
    /\ invoked = <<>>
    /\ reset_from = NoReset

\* The host calls pvm_op again, one millisecond after its previous call:
\* while (!(err = pvm_op(vm))) of main(), kept up after an error too.  Both
\* readings of a call fall in the same millisecond.  With no sleep pending
\* nothing has read the clock since the sleep before, and the SLP reads one
\* of LiveStamps.
StepLive ==
    /\ ~ub
    /\ LET t1 == Add32(now, 1)
       IN  \E t2 \in (IF timer # 0 THEN {t1} ELSE LiveStamps), u \in Oracle :
             LET x == pvm_op(Machine, t1, t2, u)
             IN  /\ timer' = x.m.timer
                 /\ timeout' = x.m.timeout
                 /\ data_stack' = x.m.data_stack
                 /\ call_stack' = x.m.call_stack
                 /\ pc' = x.m.pc
                 /\ data_top' = x.m.data_top
                 /\ call_top' = x.m.call_top
                 /\ now' = IF timer # 0 THEN t1
                           ELSE IF x.m.clk THEN t2 ELSE now
                 /\ ret' = x.ret
                 /\ op' = x.op
                 /\ oob' = x.m.oob
                 /\ ub' = x.m.ub
                 /\ invoked' = x.m.inv
    /\ steps' = IF steps < MaxSteps THEN steps + 1 ELSE steps
    /\ reset_from' = NoReset
    /\ UNCHANGED <<exe, binding, chk>>

\* The host never stops calling pvm_op.
SpecLive == InitLive /\ [][StepLive]_vars /\ WF_vars(StepLive)

\* ------------------------------------------------------------ the check

\* Bounds of the files handed to pvm_exe_check.
MaxTail == 8        \* bytes after vm_version and size, short files
MaxSize == 5        \* largest declared size below 256

\* The declared sizes and the file lengths tried: the small ones, and the
\* ones that need the high byte of the little-endian size field.
CheckSizes == (0..MaxSize) \cup {256 + s : s \in 0..MaxSize}
CheckTails == (0..MaxTail) \cup {256 + n : n \in 0..MaxTail}

\* Files as main() reads them: any version, any declared size, any length of
\* at least the three bytes pvm_exe_check reads, any content after them.
CheckImages ==
    {<<v, s % 256, s \div 256>> \o [i \in 1..n |-> b] :
        v \in 0..(PVM_VERSION + 1), s \in CheckSizes, n \in CheckTails,
        b \in {0, 255}}

Unchecked == "unchecked"

\* main() before the check: the file is read, the static pvm_t is zero.
InitCheck ==
    /\ exe \in CheckImages
    /\ binding \in Bindings
    /\ chk = Unchecked
    /\ LET vm == StaticVm(binding, exe)
       IN  /\ timer = vm.timer
           /\ timeout = vm.timeout
           /\ data_stack = vm.data_stack
           /\ call_stack = vm.call_stack
           /\ pc = vm.pc
           /\ data_top = vm.data_top
           /\ call_top = vm.call_top
    /\ now = ClockStart
    /\ ret = NoCall
    /\ op = -1
    /\ oob = FALSE
    /\ ub = FALSE
    /\ steps = 0
    /\ invoked = <<>>
    /\ reset_from = NoReset

\* The host calls pvm_exe_check on the file it read.
Check ==
    /\ chk = Unchecked
    /\ chk' = pvm_exe_check(exe, Len(exe))
    /\ UNCHANGED <<exe, binding, timer, timeout, data_stack, call_stack, pc,
                   data_top, call_top, now, ret, op, oob, ub, steps,
                   invoked, reset_from>>

NextCheck == Check

SpecCheck == InitCheck /\ [][NextCheck]_vars

\* ------------------------------------------------------------ the claims

\* The transition is a pvm_op call; the transition is a pvm_reset call.
IsStep == steps' = steps + 1
IsReset == reset_from'.valid

\* The latest host call left the machine running: a reset, or a pvm_op that
\* returned PVM_NO_ERROR.
Running == ret \in {NoCall, PVM_NO_ERROR}

\* C1, as the specification states it: after the reset and after every step
\* that returns PVM_NO_ERROR, data_top is at most PVM_DATA_STACK_SIZE, for
\* any image pvm_exe_check accepts.
C1_DataTopWithinCapacity ==
    (chk = PVM_EXE_OK /\ Running) => data_top <= PVM_DATA_STACK_SIZE

\* The end of the window of the frame at depth i: its start, its arguments
\* and the locals its function descriptor declares.
FrameWindowEnd(i) ==
    call_stack[i].variables_start + call_stack[i].arguments_count
      + pvm_function(exe, call_stack[i].function_index, 0).variables_count

\* C2, as the specification states it: after every step that returns
\* PVM_NO_ERROR, the window of arguments and locals of every live frame lies
\* below data_top.
C2_FrameWindowsBelowTop ==
    (ret = PVM_NO_ERROR) =>
        \A i \in 0..(call_top - 1) : FrameWindowEnd(i) <= data_top

\* C3, as the specification states it: after every step that returns
\* PVM_NO_ERROR with the machine in main, data_top is at least
\* main_variables_count.
C3_MainLocalsKept ==
    (ret = PVM_NO_ERROR /\ call_top = 0) =>
        data_top >= main_variables_count(exe)

\* pc is past the code section; pc is at its end or past it.  A code size
\* that wrapped as a size_t is above every pc.
PcBeyondCode(p) == CodeSizeDiff(exe) >= 0 /\ p > CodeSizeDiff(exe)
PcAtOrBeyondCode(p) == CodeSizeDiff(exe) >= 0 /\ p >= CodeSizeDiff(exe)

\* The machine is inside an unexpired sleep when the clock reads t.
InSleep(t) == timer # 0 /\ ULt(Sub32(t, timer), timeout)

\* The opcodes that load pc: the branches, RET, JMB, JMP and CAL.
TransferOps == (160..167) \cup {181, 183} \cup (192..223)

\* The step loaded pc with something else than the next offset.
Transferred == op' \in TransferOps /\ pc' # U16(pc + 1)

\* C4, as the specification states it: after every step that returns
\* PVM_NO_ERROR pc is at most the code size, and a pc equal to the code size
\* makes the next step return PVM_PC_OVERRUN.
C4_PcWithinCode ==
    [][IsStep =>
         /\ (ret' = PVM_NO_ERROR => ~PcBeyondCode(pc'))
         /\ (ret = PVM_NO_ERROR /\ pc = CodeSizeDiff(exe)
               => ret' = PVM_PC_OVERRUN)]_vars

\* C4, amended: after every step that returns PVM_NO_ERROR and did not load
\* pc (JMP, JMB, a taken branch, CAL of a bytecode function, RET), pc is at
\* most the code size; and a step taken with pc at or past the code size,
\* outside an unexpired sleep, returns PVM_PC_OVERRUN.
C4_PcWithinCodeUnlessTransferred ==
    [][IsStep =>
         /\ (ret' = PVM_NO_ERROR /\ ~Transferred => ~PcBeyondCode(pc'))
         /\ (PcAtOrBeyondCode(pc) /\ ~InSleep(now')
               => ret' = PVM_PC_OVERRUN)]_vars

\* C4's case: a transfer took pc past the code and the step after it
\* returned PVM_PC_OVERRUN.
C4_Witness == ret = PVM_PC_OVERRUN /\ PcBeyondCode(pc)

\* C5, as the specification states it: no step fetches an opcode outside the
\* code section; a step taken outside an unexpired sleep with pc at or past
\* the code size returns PVM_PC_OVERRUN and leaves pc, data_top, call_top
\* and both stacks as they were.
C5_NoFetchOutsideCode ==
    [][IsStep =>
         /\ (op' # -1 => ~CodeOutside(exe, pc))
         /\ (PcAtOrBeyondCode(pc) /\ ~InSleep(now')
               => /\ ret' = PVM_PC_OVERRUN
                  /\ UNCHANGED <<pc, data_top, call_top, data_stack,
                                 call_stack>>)]_vars

\* The function index a CAL fetched by this step names: the low four bits of
\* the opcode, or the value on top of the stack (-1: there is none).
CalParam ==
    IF op' % 16 # PVM_INTEGRAL_OP_MASK THEN op' % 16
    ELSE IF data_top \notin 1..PVM_DATA_STACK_SIZE THEN -1
    ELSE LET v == data_stack[data_top - 1]
         IN  IF v > 0 THEN v + PVM_INTEGRAL_OP_MASK ELSE v

\* The step is a CAL of a bytecode function of the image.
CalOfBytecode ==
    /\ IsStep
    /\ op' \in 208..223
    /\ CalParam \in 0..(functions_count(exe) - 1)
    /\ ~FunctionOutside(exe, CalParam)
    /\ pvm_function(exe, CalParam, 0).is_built_in = 0

\* C6: call_top never exceeds PVM_CALL_STACK_SIZE, and a CAL of a bytecode
\* function executed with call_top at PVM_CALL_STACK_SIZE returns
\* PVM_CALL_STACK_OVERFLOW, pushes no frame and leaves call_top there.
C6_CallDepthBounded ==
    /\ [](call_top <= PVM_CALL_STACK_SIZE)
    /\ [][CalOfBytecode /\ call_top = PVM_CALL_STACK_SIZE
            => /\ ret' = PVM_CALL_STACK_OVERFLOW
               /\ call_top' = PVM_CALL_STACK_SIZE
               /\ call_stack' = call_stack]_vars

\* C6's case: a CAL was fetched with the call stack full and refused.
C6_Witness ==
    /\ call_top = PVM_CALL_STACK_SIZE
    /\ op \in 208..223
    /\ ret = PVM_CALL_STACK_OVERFLOW

\* C7, as the specification states it: pvm_exe_check returns PVM_EXE_SIZE
\* exactly when the declared size differs from the length of the file less
\* the 3 bytes of vm_version and size.
C7_SizeIsLengthLess3 ==
    chk # Unchecked => (chk = PVM_EXE_SIZE <=> exe_size(exe) # Len(exe) - 3)

\* C7, amended: pvm_exe_check returns PVM_EXE_SIZE exactly when the declared
\* size differs from the length of the file less the 6 bytes of the fixed
\* header: the declared size counts the function table, the constants and
\* the code, not the three count bytes.
C7_SizeIsLengthLess6 ==
    chk # Unchecked => (chk = PVM_EXE_SIZE <=> exe_size(exe) # Len(exe) - 6)

\* C7's case: a file whose declared size is its length less 3 was checked,
\* and refused.
C7_Witness == chk = PVM_EXE_SIZE /\ exe_size(exe) = Len(exe) - 3

\* C8: pvm_exe_check returns one of its three results; PVM_EXE_VERSION exactly
\* when the size test passes and vm_version is not PVM_VERSION; PVM_EXE_OK
\* exactly when both tests pass; PVM_EXE_SIZE when both fail; and the result
\* is the same for every file of that length with those first three bytes.
C8_CheckResult ==
    chk # Unchecked =>
        LET size_ok == exe_size(exe) = Len(exe) - 6
            version_ok == vm_version(exe) = PVM_VERSION
        IN  /\ chk \in {PVM_EXE_OK, PVM_EXE_SIZE, PVM_EXE_VERSION}
            /\ chk = PVM_EXE_VERSION <=> (size_ok /\ ~version_ok)
            /\ chk = PVM_EXE_OK <=> (size_ok /\ version_ok)
            /\ (~size_ok /\ ~version_ok) => chk = PVM_EXE_SIZE
            /\ \A e \in CheckImages :
                 (Len(e) = Len(exe) /\ \A i \in 1..3 : e[i] = exe[i])
                     => pvm_exe_check(e, Len(e)) = chk

\* C8's case: a file with both the size and the version wrong was checked.
C8_Witness ==
    /\ chk = PVM_EXE_SIZE
    /\ vm_version(exe) # PVM_VERSION
    /\ exe_size(exe) # Len(exe) - 6

\* C9: pvm_reset, from any state, leaves timer, timeout, pc, call_top, every
\* data-stack slot and every call frame zero, data_top equal to
\* main_variables_count, binding and exe as they were; a second pvm_reset
\* changes nothing.
C9_ResetState ==
    [][IsReset =>
         /\ timer' = 0 /\ timeout' = 0 /\ pc' = 0 /\ call_top' = 0
         /\ \A i \in DOMAIN data_stack' : data_stack'[i] = 0
         /\ \A i \in DOMAIN call_stack' :
              /\ call_stack'[i].return_address = 0
              /\ call_stack'[i].variables_start = 0
              /\ call_stack'[i].arguments_count = 0
              /\ call_stack'[i].function_index = 0
         /\ DOMAIN data_stack' = 0..(PVM_DATA_STACK_SIZE - 1)
         /\ DOMAIN call_stack' = 0..(PVM_CALL_STACK_SIZE - 1)
         /\ data_top' = main_variables_count(exe)
         /\ binding' = binding /\ exe' = exe
         /\ reset_from.valid =>
              UNCHANGED <<timer, timeout, pc, call_top, data_top, data_stack,
                          call_stack, binding, exe>>]_vars

\* C9's case: pvm_reset was applied to a machine that was inside a call and
\* held a running timer.
C9_Witness ==
    reset_from.valid /\ reset_from.call_top > 0 /\ reset_from.sleeping

\* C10, as the specification states it, for the step that follows the SLP:
\* after a step executed SLP with ms > 0, a step taken while the clock is
\* less than ms past its reading at the SLP returns PVM_NO_ERROR, executes no
\* opcode and leaves pc and the stacks as they were.
C10_SleepsAfterSLP ==
    [][(/\ IsStep
        /\ op = 180 /\ ret = PVM_NO_ERROR
        /\ timeout > 0
        /\ ULt(Sub32(now', now), timeout))
         => /\ ret' = PVM_NO_ERROR
            /\ op' = -1
            /\ UNCHANGED <<pc, data_top, call_top, data_stack,
                           call_stack>>]_vars

\* C11: a step taken while timer is not 0 and the clock reads less than
\* timeout past timer (unsigned, modulo 2^32) returns PVM_NO_ERROR and leaves
\* every field of the machine as it was: timer, timeout, pc, data_top,
\* call_top, both stacks, the binding and the image.
C11_SleepingStepChangesNothing ==
    [][IsStep /\ InSleep(now')
         => /\ ret' = PVM_NO_ERROR
            /\ UNCHANGED <<timer, timeout, pc, data_top, call_top,
                           data_stack, call_stack, binding, exe>>]_vars

\* C11's case: a step returned from inside a sleep, having fetched nothing.
C11_Witness ==
    steps > 0 /\ op = -1 /\ ret = PVM_NO_ERROR /\ timer # 0 /\ timeout > 0

\* The milliseconds between the first clock reading and the reading t, past
\* the wrap of the clock or not.
Ticks(t) == t - ClockStart

\* The step returned from the sleep check.
StillAsleep == ret' = PVM_NO_ERROR /\ op' = -1

\* C12: with timer = t, not 0, and timeout = T, a step treats the sleep as
\* still running iff fewer than T milliseconds (T unsigned) have elapsed
\* since t, whether or not the clock wrapped from 2^32 - 1 to 0 meanwhile.
C12_SleepEndsAfterTimeout ==
    [][IsStep /\ timer # 0
         => (StillAsleep <=>
               (timeout < 0 \/ Ticks(now') - Ticks(timer) < timeout))]_vars

\* C12's case: a sleep that began before the wrap is still running at a
\* reading after it.
C12_Witness ==
    /\ steps > 0 /\ op = -1 /\ ret = PVM_NO_ERROR
    /\ timer < 0 /\ timeout > 0 /\ now >= 0

\* C13: the first step taken with timer not 0 and the clock at timeout or
\* more past it clears timer and goes on, in the same call, to the pc check
\* and the opcode at pc; and timer stays 0 until a step executes SLP.
C13_WakeUpRunsOpcode ==
    [][IsStep =>
         /\ (timer # 0 /\ ~InSleep(now')
               => /\ (timer' = 0 \/ op' = 180)
                  /\ (PcAtOrBeyondCode(pc) => ret' = PVM_PC_OVERRUN)
                  /\ (~PcAtOrBeyondCode(pc) /\ ~CodeOutside(exe, pc)
                        => op' = pvm_code(exe, pc, 0)))
         /\ (timer = 0 /\ op' # 180 => timer' = 0)]_vars

\* C13's case: PSH 2; SLP; PSH 1 slept from a reading that was not 0, and
\* the step that found the sleep over executed the PSH 1.
C13_Witness ==
    /\ exe = ImgSleep /\ pc = 3 /\ op = 1 /\ ret = PVM_NO_ERROR
    /\ timer = 0 /\ now # 0

\* The step executed the two-operand arithmetic opcode o on two values of
\* the stack, and its result is defined.
ArithStep(o) ==
    /\ IsStep
    /\ op' = o
    /\ data_top \in 2..PVM_DATA_STACK_SIZE
    /\ ret' = PVM_NO_ERROR
    /\ ~ub'

\* The operands of such a step: the value popped first, the old top of the
\* stack, and the value popped second.
PoppedFirst == data_stack[data_top - 1]
PoppedSecond == data_stack[data_top - 2]

\* The step consumed two slots and pushed r.
Pushed(r) ==
    /\ data_top' = data_top - 1
    /\ data_stack' = [data_stack EXCEPT ![data_top - 2] = r]

\* x / y truncated toward zero, for y # 0 and both above INT32_MIN.
Magnitude(x) == IF x < 0 THEN -x ELSE x
TruncDiv(x, y) ==
    LET q == Magnitude(x) \div Magnitude(y)
    IN  IF (x < 0) = (y < 0) THEN q ELSE -q
Divisible(x, y) == x # MinInt32 /\ y # MinInt32 /\ y # 0

RECURSIVE Power(_, _)
\* x raised to n by repeated multiplication modulo 2^32; 1 when n <= 0.
Power(x, n) == IF n <= 0 THEN 1 ELSE Mul32(x, Power(x, n - 1))

\* C14, as the specification states it: with a the value popped first and b
\* the value popped second, SUB pushes b - a, DIV pushes b / a truncated
\* toward zero and PWR pushes b to the power a (1 when a <= 0), modulo 2^32;
\* each consumes two slots and pushes one.
C14_SecondOpFirst ==
    [][/\ ArithStep(169) => Pushed(Sub32(PoppedSecond, PoppedFirst))
       /\ ArithStep(171) /\ Divisible(PoppedSecond, PoppedFirst)
            => Pushed(TruncDiv(PoppedSecond, PoppedFirst))
       /\ ArithStep(172) => Pushed(Power(PoppedSecond, PoppedFirst))]_vars

\* C14, amended: with a the value popped first and b the value popped
\* second, SUB pushes a - b, DIV pushes a / b truncated toward zero and PWR
\* pushes a to the power b (1 when b <= 0), modulo 2^32; each consumes two
\* slots and pushes one.
C14_FirstOpSecond ==
    [][/\ ArithStep(169) => Pushed(Sub32(PoppedFirst, PoppedSecond))
       /\ ArithStep(171) /\ Divisible(PoppedFirst, PoppedSecond)
            => Pushed(TruncDiv(PoppedFirst, PoppedSecond))
       /\ ArithStep(172) => Pushed(Power(PoppedFirst, PoppedSecond))]_vars

\* C14's case: PSH 9; PSH 2; PSH 7; NEG; DIV divided -7, popped first, by 2.
C14_Witness ==
    /\ exe = Image(<<>>, <<>>, 0, ArithCode(2, FALSE, 7, TRUE, 171))
    /\ op = 171 /\ ret = PVM_NO_ERROR
    /\ data_top = 2 /\ data_stack[1] = -3

\* PSH 9; PSH a; PSH b; o has run to its end: the PSH 9 made the starting
\* stack, of one slot.
ArithDone(a, b, o) ==
    /\ pc = 4 /\ op = o /\ ret = PVM_NO_ERROR
    /\ exe = Image(<<>>, <<>>, 0, ArithCode(a, FALSE, b, FALSE, o))

\* What the specification has PSH a; PSH b; o leave on top.
ArithExpected(a, b, o) ==
    CASE o = 168 -> b + a
      [] o = 169 -> b - a
      [] o = 172 -> IF a >= 1 THEN Power(b, a) ELSE 1

\* C15: PSH a; PSH b; ADD leaves b + a on top, PSH a; PSH b; SUB leaves
\* b - a, PSH a; PSH b; PWR leaves b to the power a when a >= 1 and 1 when
\* a <= 0; data_top ends one above its starting value and the slots below
\* are unchanged.
C15_PushPushArith ==
    \A a \in ArithOperands, b \in ArithTops, o \in {168, 169, 172} :
        ArithDone(a, b, o)
          => /\ data_top = 2
             /\ data_stack[0] = 9
             /\ data_stack[1] = ArithExpected(a, b, o)

\* C15's case: PSH 7; PSH 127; PWR left 127 to the power 7 modulo 2^32,
\* read as an int32_t, above the slot that was there.
C15_Witness ==
    /\ ArithDone(7, 127, 172)
    /\ data_top = 2 /\ data_stack[0] = 9
    /\ data_stack[1] = -732249217

\* The step fetched the branch opcode o with at least n values on the stack.
BranchStep(o, n) ==
    IsStep /\ op' = o /\ data_top \in n..PVM_DATA_STACK_SIZE

\* What a branch pops: disp first, then x (cond for BZE and BNZ), then y.
BranchDisp == data_stack[data_top - 1]
BranchX == data_stack[data_top - 2]
BranchY == data_stack[data_top - 3]

\* The condition of BEQ .. BLE on the difference d.
Compares(o, d) ==
    CASE o = 162 -> d = 0
      [] o = 163 -> d # 0
      [] o = 164 -> d > 0
      [] o = 165 -> d < 0
      [] o = 166 -> d >= 0
      [] o = 167 -> d <= 0

\* The step popped n values and left pc after the opcode, or, taken, at the
\* target the code computes: the offset after the opcode plus disp + 1,
\* modulo 2^16.
Branched(n, taken) ==
    /\ ret' = PVM_NO_ERROR
    /\ data_top' = data_top - n
    /\ data_stack' = data_stack
    /\ pc' = IF taken THEN (pc + 2 + (BranchDisp % 65536)) % 65536
             ELSE (pc + 1) % 65536

\* C16: BEQ, BNE, BGT, BLT, BGE and BLE pop disp, then x, then y, taken or
\* not, and branch iff x - y, modulo 2^32 in two's complement, is = 0, # 0,
\* > 0, < 0, >= 0, <= 0; BZE and BNZ pop disp, then cond, and branch iff
\* cond = 0, cond # 0; a branch not taken leaves pc at the byte after the
\* opcode.
C16_BranchConditions ==
    [][/\ \A o \in 162..167 :
            BranchStep(o, 3)
              => Branched(3, Compares(o, Sub32(BranchX, BranchY)))
       /\ BranchStep(160, 2) => Branched(2, BranchX = 0)
       /\ BranchStep(161, 2) => Branched(2, BranchX # 0)]_vars

\* C16's case: BGT compared x = INT32_MIN with y = 1; x - y wrapped to
\* INT32_MAX and the branch was taken, over the byte after the opcode.
C16_Witness ==
    /\ exe = ImgBranchWrap /\ op = 164 /\ ret = PVM_NO_ERROR
    /\ pc = 6 /\ data_top = 0
    /\ data_stack[1] = MinInt32 /\ data_stack[0] = 1

\* The step executed a branch whose condition held.
TakenBranch ==
    /\ IsStep
    /\ data_top <= PVM_DATA_STACK_SIZE
    /\ \/ op' = 160 /\ data_top >= 2 /\ BranchX = 0
       \/ op' = 161 /\ data_top >= 2 /\ BranchX # 0
       \/ /\ op' \in 162..167 /\ data_top >= 3
          /\ Compares(op', Sub32(BranchX, BranchY))

\* C17, as the specification states it: a taken branch with displacement 0
\* lands on the byte immediately after the branch opcode; for PSH 0; PSH 0;
\* BZE the third step leaves pc at the offset of the byte that follows BZE.
C17_ZeroDispLandsAfterOpcode ==
    [][TakenBranch /\ BranchDisp = 0 => pc' = (pc + 1) % 65536]_vars

\* C17, amended: a taken branch adds disp + 1 to the pc the fetch has
\* already moved past the opcode, with no -2 for a negative disp: from the
\* opcode at offset A it lands at A + disp + 2 modulo 2^16, which for
\* displacement 0 is one byte past the byte that follows the opcode.
C17_TakenBranchSkipsOneMore ==
    [][TakenBranch
         => /\ pc' = (pc + 2 + (BranchDisp % 65536)) % 65536
            /\ (BranchDisp = 0 => pc' = (pc + 2) % 65536)]_vars

\* C17's case: the third step of PSH 0; PSH 0; BZE left pc at 4, the BZE
\* being at offset 2.
C17_Witness ==
    exe = ImgBze /\ op = 160 /\ ret = PVM_NO_ERROR /\ pc = 4 /\ steps = 3

\* The step fetched the jump opcode o, which pops its operand, with a value
\* on the stack; the value.
JumpStep(o) ==
    IsStep /\ op' = o /\ data_top \in 1..PVM_DATA_STACK_SIZE
JumpOperand == data_stack[data_top - 1]

\* The step popped the operand and left pc at the offset p modulo 2^16.
JumpedTo(p) ==
    /\ ret' = PVM_NO_ERROR
    /\ data_top' = data_top - 1
    /\ pc' = p % 65536

\* C18: a JMP at offset A with a negative displacement d sets pc to A + d
\* modulo 2^16, and a JMB at offset A that pops v > 0 sets pc to A - v, v
\* taken as it is; a loop of the |d| bytes before the jump is entered again
\* at its first opcode.
C18_BackwardJumps ==
    [][/\ JumpStep(207) /\ JumpOperand < 0 => JumpedTo(pc + JumpOperand)
       /\ JumpStep(183) /\ JumpOperand > 0 => JumpedTo(pc - JumpOperand)]_vars

\* C18's case: PSH 2; NEG; JMP went round its loop of two bytes a second
\* time.
C18_Witness ==
    exe = ImgLoop /\ op = 207 /\ ret = PVM_NO_ERROR /\ pc = 0 /\ steps >= 6

\* The largest parameter value looked for.
MaxParam == 20

\* The effective parameter of the stack form o taken by the machine as it
\* stands, were v on top of its stack.
StackParam(o, v) ==
    Param(o, [Machine EXCEPT !.data_stack[0] = v, !.data_top = 1], 0)

\* C19, as the specification states it: for CAL, JMP, LDV and STV in the
\* stack form the effective parameter is the popped value plus 15 when that
\* is positive and the popped value otherwise, and every parameter n >= 15
\* is the effective parameter of some popped value.  A popped value above n
\* gives more than n, and one below 0 gives itself, so the values from -1 to
\* n are all there is to try.
C19_StackFormReachesAll ==
    \A o \in {207, 223, 239, 255} :
        /\ \A v \in (-1)..MaxParam :
               /\ StackParam(o, v).err = PVM_NO_ERROR
               /\ StackParam(o, v).v
                     = IF v > 0 THEN v + PVM_INTEGRAL_OP_MASK ELSE v
        /\ \A n \in PVM_INTEGRAL_OP_MASK..MaxParam :
               \E v \in (-1)..n : StackParam(o, v).v = n

\* The step fetched CAL with the immediate i, naming a function of the image
\* that is not variadic, with room on the call stack.
CalImmediate(i) ==
    /\ IsStep
    /\ op' = 208 + i
    /\ i < functions_count(exe)
    /\ ~FunctionOutside(exe, i)
    /\ pvm_function(exe, i, 0).is_variadic = 0
    /\ call_top < PVM_CALL_STACK_SIZE
    /\ data_top <= PVM_DATA_STACK_SIZE

\* The free slots of the data stack hold the locals and the returns of f,
\* and f, if a built-in, is one of the host's.
CalFits(f) ==
    /\ PVM_DATA_STACK_SIZE - data_top >= f.variables_count
    /\ PVM_DATA_STACK_SIZE - data_top >= f.returns_count
    /\ f.is_built_in = 1 => f.address < pvm_builtins_size

\* C20: CAL in immediate form of a valid function that is not variadic, with
\* call_top below PVM_CALL_STACK_SIZE, returns PVM_ARG_OUT_OF_STACK iff
\* data_top is less than arguments_count; with the locals and returns
\* fitting the free slots, it returns PVM_NO_ERROR when data_top equals
\* arguments_count (or exceeds it).
C20_ArgumentsOnStack ==
    [][\A i \in 0..(PVM_INTEGRAL_OP_MASK - 1) :
         CalImmediate(i)
           => LET f == pvm_function(exe, i, 0)
              IN  /\ (ret' = PVM_ARG_OUT_OF_STACK
                        <=> data_top < f.arguments_count)
                  /\ (data_top >= f.arguments_count /\ CalFits(f)
                        => ret' = PVM_NO_ERROR)]_vars

\* C20's case: PSH 5; CAL 0 of a function of two arguments was refused with
\* one value on the stack.
C20_Witness ==
    /\ exe = ImgArgsShort /\ op = 208 /\ ret = PVM_ARG_OUT_OF_STACK
    /\ data_top = 1 /\ pc = 2

\* The step fetched CAL with the immediate i, naming a variadic function of
\* the image, with room on the call stack and a value to pop.
CalVariadic(i) ==
    /\ IsStep
    /\ op' = 208 + i
    /\ i < functions_count(exe)
    /\ ~FunctionOutside(exe, i)
    /\ pvm_function(exe, i, 0).is_variadic = 1
    /\ call_top < PVM_CALL_STACK_SIZE
    /\ data_top \in 1..PVM_DATA_STACK_SIZE

\* C21: CAL of a variadic function pops one more value v; it returns
\* PVM_VARIADIC_SIZE if v < 0 or arguments_count + v > 255, and otherwise
\* arguments_count + v is the count the PVM_ARG_OUT_OF_STACK test uses, the
\* frame's arguments_count, what its variables_start is below the top, and
\* the count a built-in is passed.
C21_VariadicCount ==
    [][\A i \in 0..(PVM_INTEGRAL_OP_MASK - 1) :
         CalVariadic(i)
           => LET f == pvm_function(exe, i, 0)
                  v == data_stack[data_top - 1]
                  d == data_top - 1
                  n == f.arguments_count + v
              IN  IF v < 0 \/ v > 255 - f.arguments_count
                  THEN ret' = PVM_VARIADIC_SIZE
                  ELSE /\ ret' # PVM_VARIADIC_SIZE
                       /\ ret' = PVM_ARG_OUT_OF_STACK <=> d < n
                       /\ ret' = PVM_NO_ERROR /\ f.is_built_in = 0
                            => /\ call_top' = call_top + 1
                               /\ call_stack'[call_top].arguments_count = n
                               /\ call_stack'[call_top].variables_start = d - n
                       /\ ret' = PVM_NO_ERROR /\ f.is_built_in = 1
                            => invoked' = <<[address |-> f.address,
                                             base |-> d - n, count |-> n]>>]_vars

\* C21's case: a variadic function of one declared argument was called with
\* the count 1 and got a frame of two arguments at the bottom of the stack.
C21_Witness ==
    /\ exe \in VariadicImages /\ op = 208 /\ ret = PVM_NO_ERROR
    /\ call_top = 1 /\ data_top = 3
    /\ call_stack[0].arguments_count = 2 /\ call_stack[0].variables_start = 0

\* The step fetched a CAL that names a function of the image.
CalOfFunction ==
    /\ IsStep
    /\ op' \in 208..223
    /\ CalParam \in 0..(functions_count(exe) - 1)
    /\ ~FunctionOutside(exe, CalParam)

\* C22, as the specification states it: a CAL of a built-in does not depend
\* on the depth of the call stack.  PVM_CALL_STACK_OVERFLOW is returned only
\* for a bytecode function with call_top at PVM_CALL_STACK_SIZE, and a
\* built-in that is not variadic, called there with its arguments on the
\* stack and room for its returns, returns PVM_NO_ERROR.
C22_BuiltinAtAnyDepth ==
    [][CalOfFunction
         => LET f == pvm_function(exe, CalParam, 0)
            IN  /\ ret' = PVM_CALL_STACK_OVERFLOW
                     => f.is_built_in = 0 /\ call_top = PVM_CALL_STACK_SIZE
                /\ (/\ f.is_built_in = 1 /\ f.is_variadic = 0
                    /\ call_top = PVM_CALL_STACK_SIZE
                    /\ op' # 223
                    /\ data_top \in f.arguments_count..PVM_DATA_STACK_SIZE
                    /\ CalFits(f))
                     => ret' = PVM_NO_ERROR]_vars

\* The step fetched CAL in immediate form, naming a built-in of the image,
\* with the data stack within its capacity.
CalBuiltin ==
    /\ CalOfFunction
    /\ op' # 223
    /\ pvm_function(exe, CalParam, 0).is_built_in = 1
    /\ data_top <= PVM_DATA_STACK_SIZE

\* The top of the stack when the arguments are counted, and their count: for
\* a variadic function the count of the extra ones has been popped.
ArgsTop(f) == IF f.is_variadic = 1 THEN data_top - 1 ELSE data_top
ArgsCount(f) ==
    IF f.is_variadic = 1
    THEN f.arguments_count + data_stack[data_top - 1]
    ELSE f.arguments_count

\* C23: a successful CAL of a built-in calls pvm_builtins[address] once, with
\* the arguments at data_top less their count and that count, then sets
\* data_top to that base plus returns_count; call_top and the call stack are
\* unchanged, pc is at the byte after the opcode and no slot below the base
\* is changed.  With address at or past pvm_builtins_size the step returns
\* PVM_BUILTIN_NO_FUNCTION, when the tests before it pass, and calls nothing.
C23_BuiltinCall ==
    [][CalBuiltin
         => LET f == pvm_function(exe, CalParam, 0)
                base == ArgsTop(f) - ArgsCount(f)
            IN  /\ ret' = PVM_NO_ERROR
                     => /\ invoked' = <<[address |-> f.address, base |-> base,
                                         count |-> ArgsCount(f)]>>
                        /\ data_top' = base + f.returns_count
                        /\ call_top' = call_top
                        /\ call_stack' = call_stack
                        /\ pc' = (pc + 1) % 65536
                        /\ \A j \in 0..(base - 1) :
                               data_stack'[j] = data_stack[j]
                /\ ret' # PVM_NO_ERROR => invoked' = <<>>
                /\ f.address >= pvm_builtins_size
                     => /\ ret' # PVM_NO_ERROR
                        /\ (/\ f.is_variadic = 0
                            /\ call_top < PVM_CALL_STACK_SIZE
                            /\ data_top >= f.arguments_count
                            /\ PVM_DATA_STACK_SIZE - data_top >= f.returns_count
                            /\ PVM_DATA_STACK_SIZE - data_top
                                 >= f.variables_count)
                             => ret' = PVM_BUILTIN_NO_FUNCTION]_vars

\* C23's case: the built-in at entry 9, of two arguments and one return, was
\* called with 4 and 5 above a 9 and left its 2 in the place of the 4.
C23_Witness ==
    /\ exe \in BuiltinImages /\ op = 208 /\ ret = PVM_NO_ERROR
    /\ invoked = <<[address |-> 9, base |-> 1, count |-> 2]>>
    /\ data_top = 2 /\ data_stack[0] = 9 /\ data_stack[1] = 2
    /\ call_top = 0 /\ pc = 4

\* The step fetched CAL in immediate form, naming a bytecode function of the
\* image.
CalBytecode ==
    /\ CalOfFunction
    /\ op' # 223
    /\ pvm_function(exe, CalParam, 0).is_built_in = 0

\* The step pushed the frame of function p with n arguments below the top d,
\* zeroed the locals above d and entered the function.
Entered(p, f, n, d) ==
    /\ call_top' = call_top + 1
    /\ call_stack' = [call_stack EXCEPT ![call_top] =
                         [return_address  |-> (pc + 1) % 65536,
                          variables_start |-> d - n,
                          arguments_count |-> n,
                          function_index  |-> p]]
    /\ data_top' = d + f.variables_count
    /\ \A j \in 0..(PVM_DATA_STACK_SIZE - 1) :
           /\ j < d => data_stack'[j] = data_stack[j]
           /\ (j >= d /\ j < d + f.variables_count) => data_stack'[j] = 0
    /\ pc' = f.address

\* C24, as the specification states it: a successful CAL of the bytecode
\* function p with n arguments, data_top being d, pushes the one frame
\* {return_address: the offset after the opcode, variables_start: d - n,
\* arguments_count: n, function_index: p}, adds variables_count zeroed slots,
\* leaves the slots below d as they were and sets pc to the function's
\* address; and the zeroing never returns PVM_DATA_STACK_OVERFLOW.
C24_FramePushed ==
    [][CalBytecode
         => LET f == pvm_function(exe, CalParam, 0)
            IN  /\ ret' = PVM_NO_ERROR
                     => Entered(CalParam, f, ArgsCount(f), ArgsTop(f))
                /\ ret' # PVM_DATA_STACK_OVERFLOW]_vars

\* The top frame, and the descriptor of the function it belongs to.
TopFrame == call_stack[call_top - 1]
TopFunction == pvm_function(exe, TopFrame.function_index, 0)

\* The step fetched RET inside a function of the image.
RetInFunction ==
    /\ IsStep
    /\ op' = 181
    /\ call_top \in 1..PVM_CALL_STACK_SIZE
    /\ TopFrame.function_index < functions_count(exe)
    /\ ~FunctionOutside(exe, TopFrame.function_index)

\* C25: a successful RET in function f, the top frame being {variables_start
\* s, return_address ra} and r being f's returns_count, copies the top r
\* values in their order to data_stack[s .. s + r - 1], sets data_top to
\* s + r and pc to ra, takes one from call_top and leaves every slot below s
\* as it was.
C25_ReturnMovesValues ==
    [][RetInFunction /\ ret' = PVM_NO_ERROR
         => LET s == TopFrame.variables_start
                r == TopFunction.returns_count
            IN  /\ data_top >= r
                /\ \A i \in 0..(r - 1) :
                       data_stack'[s + i] = data_stack[(data_top - r) + i]
                /\ \A j \in 0..(s - 1) : data_stack'[j] = data_stack[j]
                /\ data_top' = s + r
                /\ pc' = TopFrame.return_address
                /\ call_top' = call_top - 1]_vars

\* C25's case: a function of two arguments and one local returned the 5 and
\* the 6 it had pushed, in that order, to the place of its arguments, above
\* the 9 of main.
C25_Witness ==
    /\ exe = TripImage(2, 1, 2, 2) /\ op = 181 /\ ret = PVM_NO_ERROR
    /\ call_top = 0 /\ pc = 4 /\ data_top = 3
    /\ data_stack[0] = 9 /\ data_stack[1] = 5 /\ data_stack[2] = 6

\* C26: RET inside a function returns PVM_DATA_STACK_SMASHED exactly when
\* data_top - returns_count, in 8 bits, differs from variables_start plus
\* the frame's arguments_count plus variables_count; the frame has then been
\* popped, while data_top and the data stack are unchanged and pc, left after
\* the opcode, is not set to the return address.
C26_SmashedStack ==
    [][RetInFunction
         => LET window == TopFrame.variables_start + TopFrame.arguments_count
                            + TopFunction.variables_count
                returns_start == (data_top - TopFunction.returns_count) % 256
            IN  /\ ret' = PVM_DATA_STACK_SMASHED <=> window # returns_start
                /\ ret' = PVM_DATA_STACK_SMASHED
                     => /\ call_top' = call_top - 1
                        /\ data_top' = data_top
                        /\ data_stack' = data_stack
                        /\ pc' = (pc + 1) % 65536]_vars

\* C26's case: RET of a function of two returns with one value on the stack:
\* 1 - 2 wraps to 255, which is not the end of the window.
C26_Witness ==
    /\ exe = TripImage(0, 0, 2, 0) /\ op = 181
    /\ ret = PVM_DATA_STACK_SMASHED
    /\ call_top = 0 /\ data_top = 1 /\ pc = 4

\* C27: RET with call_top = 0 returns PVM_MAIN_RETURN and changes nothing
\* but pc, which is past the opcode; and RET returns PVM_MAIN_RETURN in no
\* other situation.
C27_MainReturn ==
    [][IsStep /\ op' = 181
         => /\ call_top = 0
                 => /\ ret' = PVM_MAIN_RETURN
                    /\ pc' = (pc + 1) % 65536
                    /\ UNCHANGED <<data_top, data_stack, call_top, call_stack>>
            /\ ret' = PVM_MAIN_RETURN => call_top = 0]_vars

\* C27's case: RET in main with a value on the stack.
C27_Witness ==
    /\ op = 181 /\ ret = PVM_MAIN_RETURN
    /\ call_top = 0 /\ data_top = 1 /\ pc = 2

\* The function of TripImage(n, v, r, r), called with n arguments above the
\* 9 of main, pushed r values above its locals and its RET succeeded.
TripDone(n, v, r) ==
    /\ op = 181 /\ ret = PVM_NO_ERROR
    /\ exe = TripImage(n, v, r, r)

\* C28: a caller with n arguments on top of its stack calls a bytecode
\* function of n arguments and r returns whose body reaches RET with r
\* values above its locals; after the RET call_top is what it was before the
\* call, pc is the offset after the CAL opcode, data_top is what it was less
\* n plus r, and the caller's slots below the arguments are unchanged.  PSH 3;
\* CAL 0 with the body LDV 0; INC; RET leaves 4 on top and call_top 0.
C28_CallReturnRoundTrip ==
    /\ \A n \in {0, 2}, v \in {0, 1}, r \in 0..2 :
           TripDone(n, v, r)
             => /\ call_top = 0
                /\ pc = n + 2
                /\ data_top = ((1 + n) - n) + r
                /\ data_stack[0] = 9
                /\ \A i \in 1..r : data_stack[i] = 4 + i
    /\ (exe = ImgCall /\ op = 181 /\ ret = PVM_NO_ERROR)
         => /\ call_top = 0
            /\ pc = 2
            /\ data_top = 1
            /\ data_stack[0] = 4

\* C28's case: PSH 3; CAL 0 came back from LDV 0; INC; RET with 4 on top.
C28_Witness ==
    /\ exe = ImgCall /\ op = 181 /\ ret = PVM_NO_ERROR
    /\ call_top = 0 /\ pc = 2 /\ data_top = 1 /\ data_stack[0] = 4

\* The step fetched LDV or STV, in main or in a function of the image, and
\* its index, if it comes from the stack, is there.
VarStep ==
    /\ IsStep
    /\ op' \in 224..255
    /\ data_top \in 0..PVM_DATA_STACK_SIZE
    /\ call_top \in 0..PVM_CALL_STACK_SIZE
    /\ call_top > 0
         => /\ TopFrame.function_index < functions_count(exe)
            /\ ~FunctionOutside(exe, TopFrame.function_index)
    /\ op' % 16 = 15 => data_top >= 1

VarFromStack == op' % 16 = 15
VarStore == (op' \div 16) % 2 = 1

\* The effective index: the immediate, or the popped value, biased by 15
\* when it is positive.
VarIndex ==
    IF ~VarFromStack THEN op' % 16
    ELSE IF data_stack[data_top - 1] > 0 THEN data_stack[data_top - 1] + 15
    ELSE data_stack[data_top - 1]

\* data_top once the index is taken.
VarTop == IF VarFromStack THEN data_top - 1 ELSE data_top

\* variables_start of the code that runs.
VarBase == IF call_top = 0 THEN 0 ELSE TopFrame.variables_start

\* C29: LDV and STV of the effective index p return PVM_NO_VARIABLE exactly
\* when p < 0 or p >= locals_size, locals_size being main_variables_count
\* with call_top = 0 and otherwise arguments_count + variables_count of the
\* current function's descriptor; an accepted index addresses
\* data_stack[variables_start + p], PVM_VAR_OUT_OF_STACK if that is no slot;
\* LDV pushes the slot's value, STV pops a value into it; on PVM_NO_VARIABLE
\* STV has not popped the value to store.
C29_LocalsBound ==
    [][VarStep
         => LET p == VarIndex
                d == VarTop
                slot == VarBase + p
                locals_size ==
                    IF call_top = 0 THEN main_variables_count(exe)
                    ELSE TopFunction.arguments_count
                           + TopFunction.variables_count
            IN  /\ ret' = PVM_NO_VARIABLE <=> (p < 0 \/ p >= locals_size)
                /\ ret' = PVM_NO_VARIABLE
                     => data_top' = d /\ data_stack' = data_stack
                /\ (p >= 0 /\ p < locals_size)
                     => IF slot >= PVM_DATA_STACK_SIZE
                        THEN ret' = PVM_VAR_OUT_OF_STACK
                        ELSE IF VarStore
                        THEN IF d = 0
                             THEN ret' = PVM_DATA_STACK_UNDERFLOW
                             ELSE /\ ret' = PVM_NO_ERROR
                                  /\ data_top' = d - 1
                                  /\ data_stack' =
                                       [data_stack EXCEPT
                                          ![slot] = data_stack[d - 1]]
                        ELSE IF d >= PVM_DATA_STACK_SIZE
                             THEN ret' = PVM_DATA_STACK_OVERFLOW
                             ELSE /\ ret' = PVM_NO_ERROR
                                  /\ data_top' = d + 1
                                  /\ data_stack' =
                                       [data_stack EXCEPT
                                          ![d] = data_stack[slot]]]_vars

\* C29's case: PSH 7; PSH 1; NEG; STV with the index -1 from the stack was
\* refused, and the 7 is still on the stack above the two main variables.
C29_Witness ==
    /\ op = 255 /\ ret = PVM_NO_VARIABLE
    /\ exe = Image(<<>>, <<>>, 2, <<7, 1, 184, 255>>)
    /\ data_top = 3 /\ data_stack[2] = 7

\* C30, as the specification states it: in every bytecode frame, those of
\* variadic functions called with extra arguments included, LDV and STV
\* accept the index p exactly when 0 <= p < the frame's arguments_count plus
\* the function's variables_count, so that every passed argument and every
\* zeroed local of the frame can be loaded and stored.
C30_FrameWindow ==
    [][VarStep /\ call_top > 0
         => (ret' = PVM_NO_VARIABLE
               <=> \/ VarIndex < 0
                   \/ VarIndex >= TopFrame.arguments_count
                                    + TopFunction.variables_count)]_vars

\* STV i, fetched at offset p of the image VarPair(where, i), succeeded: the
\* LDV i before it ran on the stack the image had built.
VarPairDone(where, i, p) ==
    /\ op = 240 + i /\ ret = PVM_NO_ERROR /\ pc = p + 1
    /\ exe = VarPair(where, i)

\* C31: with a valid variable index i and data_top below the capacity, LDV i
\* followed by STV i leaves data_top and every slot below data_top, variable
\* i included, as they were; pc is two opcodes further.
C31_LoadStoreRoundTrip ==
    \A i \in 0..1 :
        /\ VarPairDone("main", i, 4)
             => /\ data_top = 3 /\ call_top = 0
                /\ data_stack[0] = 0 /\ data_stack[1] = 5 /\ data_stack[2] = 9
        /\ VarPairDone("call", i, 4)
             => /\ data_top = 3 /\ call_top = 1
                /\ data_stack[0] = 9 /\ data_stack[1] = 6 /\ data_stack[2] = 0
        /\ VarPairDone("full", i, 2)
             => /\ data_top = PVM_DATA_STACK_SIZE - 1 /\ call_top = 1
                /\ \A j \in 0..(PVM_DATA_STACK_SIZE - 2) : data_stack[j] = 0

\* C31's case: LDV 1; STV 1 in main, the variable holding 5 below a 9.
C31_Witness ==
    /\ VarPairDone("main", 1, 4)
    /\ data_top = 3 /\ data_stack[1] = 5 /\ data_stack[2] = 9

\* The step fetched LDC with a value on the stack, the index.
LdcStep ==
    /\ IsStep
    /\ op' = 182
    /\ data_top \in 1..PVM_DATA_STACK_SIZE

LdcIndex == data_stack[data_top - 1]

\* C32: LDC pops an index; with 0 <= index < constants_count it pushes
\* constants[index], so that data_top is what it was and PSH c; LDC leaves
\* constants[c] on top; otherwise it returns PVM_NO_CONSTANT with the index
\* popped and nothing pushed.
C32_LoadConstant ==
    [][LdcStep
         => IF LdcIndex >= 0 /\ LdcIndex < constants_count(exe)
            THEN /\ ret' = PVM_NO_ERROR
                 /\ data_top' = data_top
                 /\ data_stack' =
                      [data_stack EXCEPT
                         ![data_top - 1] = pvm_constant(exe, LdcIndex, 0)]
            ELSE /\ ret' = PVM_NO_CONSTANT
                 /\ data_top' = data_top - 1
                 /\ data_stack' = data_stack]_vars

\* C32's case: PSH 1; LDC with the constants 4660 and -5 left -5 on top.
C32_Witness ==
    /\ op = 182 /\ ret = PVM_NO_ERROR /\ pc = 2
    /\ exe = Image(<<>>, <<4660, -5>>, 0, <<1, 182>>)
    /\ data_top = 1 /\ data_stack[0] = -5

\* The code PscChain(x) ran to its end, every step a success.
PscDone(x) ==
    /\ ret = PVM_NO_ERROR /\ op >= 0 /\ timer = 0
    /\ Len(exe) = ExeHeaderSize + pc
    /\ pc = Len(PscChain(x))
    /\ exe = Image(<<>>, <<>>, 0, PscChain(x))

\* C33: PSH pushes op & 0x7F; PSC pops v and pushes (v << 5) | (op & 0x1F)
\* as a 32-bit two's complement value: the low five bits of the result are
\* the operand and the 27 bits above them are the low 27 bits of v.  So PSH
\* and up to five PSC build any 32-bit value, with data_top one above its
\* start.
C33_PushChunks ==
    [][IsStep
         => /\ (op' \in 0..127 /\ data_top < PVM_DATA_STACK_SIZE)
                 => /\ ret' = PVM_NO_ERROR
                    /\ data_top' = data_top + 1
                    /\ data_stack' =
                         [data_stack EXCEPT ![data_top] = op' % 128]
            /\ (op' \in 128..159 /\ data_top \in 1..PVM_DATA_STACK_SIZE)
                 => /\ ret' = PVM_NO_ERROR
                    /\ data_top' = data_top
                    /\ data_stack'[data_top - 1] % 32 = op' % 32
                    /\ (data_stack'[data_top - 1] \div 32) % 134217728
                         = data_stack[data_top - 1] % 134217728
                    /\ \A j \in 0..(data_top - 2) :
                           data_stack'[j] = data_stack[j]
            /\ \A x \in PscValues :
                   /\ Len(PscChain(x)) <= 6
                   /\ PscDone(x)' => data_top' = 1 /\ data_stack'[0] = x]_vars

\* C33's case: PSH 127 and five PSC 31 left -1 on top.
C33_Witness ==
    /\ PscDone(-1) /\ op = 159 /\ pc = 6
    /\ data_top = 1 /\ data_stack[0] = -1

\* The step fetched SKZ, SNZ, SKN or SNN.
ReservedStep == IsStep /\ op' \in 176..179

\* C34, as the specification states it: a step that executes SKZ, SNZ, SKN
\* or SNN returns PVM_NO_ERROR, advances pc by one and leaves data_top, the
\* data stack, call_top, the call stack, timer and timeout unchanged, whatever
\* the stack holds.
C34_ReservedChangesNothing ==
    [][ReservedStep
         => /\ ret' = PVM_NO_ERROR
            /\ pc' = (pc + 1) % 65536
            /\ UNCHANGED <<data_top, data_stack, call_top, call_stack,
                           timer, timeout>>]_vars

\* C34, amended: as above, but for timer, which the step leaves at 0: it
\* clears the timer of the sleep it ended before it fetches the opcode.
C34_ReservedKeepsStacks ==
    [][ReservedStep
         => /\ ret' = PVM_NO_ERROR
            /\ pc' = (pc + 1) % 65536
            /\ UNCHANGED <<data_top, data_stack, call_top, call_stack,
                           timeout>>
            /\ timer' = 0
            /\ timer = 0 => UNCHANGED timer]_vars

\* C34's case: SNN ran after PSH 0; SLP, on an empty stack, and the timer
\* the SLP had set is cleared.
C34_Witness ==
    /\ op = 179 /\ ret = PVM_NO_ERROR /\ pc = 3
    /\ exe = Image(<<>>, <<>>, 0, <<0, 180, 179>>)
    /\ data_top = 0 /\ timer = 0

\* C35: a step that returns an error other than PVM_PC_OVERRUN has advanced
\* pc past the opcode and keeps the pops made before the failing test: a
\* two-operand opcode with one value on the stack returns
\* PVM_DATA_STACK_UNDERFLOW with data_top 0, POP of more values than there
\* are does the same, and PSH on a full stack returns
\* PVM_DATA_STACK_OVERFLOW with data_top and the stack as they were.
C35_ErrorsKeepPartialWork ==
    [][IsStep
         => /\ ret' \notin {PVM_NO_ERROR, PVM_PC_OVERRUN}
                 => op' >= 0 /\ pc' = (pc + 1) % 65536
            /\ (op' \in 160..175 /\ data_top = 1)
                 => ret' = PVM_DATA_STACK_UNDERFLOW /\ data_top' = 0
            /\ (op' \in 188..191 /\ data_top < (op' % 4) + 1)
                 => ret' = PVM_DATA_STACK_UNDERFLOW /\ data_top' = 0
            /\ (op' \in 0..127 /\ data_top = PVM_DATA_STACK_SIZE)
                 => /\ ret' = PVM_DATA_STACK_OVERFLOW
                    /\ UNCHANGED <<data_top, data_stack>>]_vars

\* C35's case: PSH 7; POP 4 took the 7 and then found the stack empty.
C35_Witness ==
    /\ op = 191 /\ ret = PVM_DATA_STACK_UNDERFLOW /\ pc = 2
    /\ exe = Image(<<>>, <<>>, 0, <<7, 191>>)
    /\ data_top = 0

\* The step follows a pvm_op call that returned an error.
StepAfterError == IsStep /\ ret \notin {NoCall, PVM_NO_ERROR}

\* C36: no error is latched.  A step that follows an error, PVM_MAIN_RETURN
\* included, finds nothing reset and goes on from the pc and the stacks the
\* failed step left: it fetches the opcode at pc (the one after a RET of
\* main), or returns PVM_PC_OVERRUN, touching nothing, if pc is not below the
\* code size.
C36_NoLatchedError ==
    [][StepAfterError
         => /\ timer = 0
            /\ IF PcOverrun(exe, pc)
               THEN /\ ret' = PVM_PC_OVERRUN /\ op' = -1
                    /\ UNCHANGED <<pc, data_top, data_stack, call_top,
                                   call_stack, timer, timeout>>
               ELSE /\ \E u \in Oracle : op' = pvm_code(exe, pc, u)
                    /\ \E u \in Oracle :
                         \E r \in {Dispatch(op', [Machine EXCEPT
                                                    !.pc = U16(pc + 1)],
                                             now, u)} :
                           /\ ret' = r.ret
                           /\ data_top' = r.m.data_top
                           /\ data_stack' = r.m.data_stack
                           /\ call_top' = r.m.call_top
                           /\ pc' = r.m.pc]_vars

\* C36's case: RET in main returned PVM_MAIN_RETURN at offset 0, and the
\* next step ran the PSH 2 at offset 1.
C36_Witness ==
    /\ op = 2 /\ ret = PVM_NO_ERROR /\ pc = 2 /\ steps = 2
    /\ exe = Image(<<FunctionBytes(1, 0, 1, 0, 0, 0)>>, <<-5>>, 0, <<181, 2>>)
    /\ data_top = 1 /\ data_stack[0] = 2

\* The file holds every byte its size field announces, and the two tables
\* fit in them: pvm_op then reads the image inside its bytes only.
ImageWhole ==
    /\ Len(exe) = ExeHeaderSize + exe_size(exe)
    /\ CodeSizeDiff(exe) >= 0

\* C37, as the specification states it: with an image that pvm_exe_check
\* accepts, after the reset and any sequence of steps, every element of
\* data_stack that a step reads or writes has an index below
\* PVM_DATA_STACK_SIZE and every element of call_stack an index below
\* PVM_CALL_STACK_SIZE: no step has accessed an array outside its bounds.
C37_StackAccessesInside == (chk = PVM_EXE_OK /\ ImageWhole) => ~oob

\* C38, as the specification states it: every step that executes DIV has a
\* defined outcome, the quotient truncated toward zero pushed or an error
\* code returned; a divisor of zero, and INT32_MIN divided by -1, are
\* reported as an error code and not divided.
C38_DivDefined ==
    op = 171 => /\ ~ub
                /\ ret = PVM_NO_ERROR => data_top >= 1

\* The pvm_op call at clock reading t would find the machine asleep.
AsleepAt(t) == Sleeping(Machine, t)

\* C39: SLP stores the popped ms in timeout unchecked.  With ms = 0 there is
\* no delay: the next step executes the next opcode (or finds none).  A
\* negative ms is a timeout of 2^32 + ms milliseconds: the machine sleeps
\* while fewer than that have passed since the SLP, and no longer.
C39_SleepUnchecked ==
    [][IsStep
         => /\ (op' = 180 /\ data_top \in 1..PVM_DATA_STACK_SIZE)
                 => /\ ret' = PVM_NO_ERROR
                    /\ timeout' = data_stack[data_top - 1]
                    /\ data_top' = data_top - 1
            /\ (timer # 0 /\ timeout = 0)
                 => op' >= 0 \/ ret' = PVM_PC_OVERRUN
            /\ (timer # 0 /\ timeout < 0)
                 => /\ op' = -1 /\ ret' = PVM_NO_ERROR
                    /\ UNCHANGED <<timer, timeout, pc, data_top, data_stack,
                                   call_top, call_stack>>
                    /\ \A d \in {0, 1, MaxInt32, MinInt32,
                                  Sub32(timeout, 1)} :
                           ULt(d, timeout) => AsleepAt(Add32(timer, d))
                    /\ ~AsleepAt(Add32(timer, timeout))
                    /\ ~AsleepAt(Add32(timer, -1))]_vars

\* C39's case: after PSH 1; NEG; SLP the machine is asleep with timeout -1,
\* which is 2^32 - 1 unsigned, and a further step has done nothing.
C39_Witness ==
    /\ exe = ImgSleepNeg /\ steps = 4 /\ op = -1 /\ ret = PVM_NO_ERROR
    /\ timer # 0 /\ timeout = -1 /\ pc = 3 /\ data_top = 0

\* A sleep of a non-negative ms is pending.
Asleep == timer # 0 /\ timeout >= 0

\* The latest step ended a sleep or found none: it fetched an opcode with
\* the timer cleared (a SLP it fetched has set it again), or found no
\* opcode to fetch.
Woken ==
    \/ op >= 0 /\ (timer = 0 \/ op = 180)
    \/ ret = PVM_PC_OVERRUN /\ timer = 0

\* C40: the host keeps calling pvm_op, one millisecond after the other.
\* Every sleep that SLP starts with a non-negative ms ends: the step after
\* the SLP finds the machine asleep or ends the sleep, and once a step has
\* found it asleep, some later step clears timer and executes the opcode
\* after the SLP, or returns PVM_PC_OVERRUN if there is none.
C40_SleepEnds ==
    /\ [][Asleep /\ op = 180
            => \/ Asleep' /\ op' = -1 /\ ret' = PVM_NO_ERROR
               \/ Woken']_vars
    /\ (Asleep /\ op = -1) ~> Woken

\* C40's case: the sleep of 3 milliseconds that began at clock reading
\* 2^32 - 1 is over, and the PSH 7 after the SLP has run.
C40_Witness ==
    /\ exe = Image(<<>>, <<>>, 0, <<3, 180, 7>>)
    /\ op = 7 /\ ret = PVM_NO_ERROR /\ timer = 0 /\ timeout = 3
    /\ now = 2 /\ data_top = 1 /\ data_stack[0] = 7

====
